---------------------------- MODULE Spec2Model ----------------------------
(***************************************************************************)
(* A model of uvdata-rust: the UVMeta / ArrayMetaData / UVData aggregates  *)
(* (src/src/base.rs, src/src/lib.rs), the baseline and geodetic utilities  *)
(* (src/src/utils.rs) and the UVH5 codec (src/src/uvh5.rs).                *)
(*                                                                         *)
(* Conventions                                                             *)
(*  - a Rust String / &str is a sequence of one-character strings          *)
(*  - Option<T> is a sequence of length 0 (None) or 1 (Some)               *)
(*  - an ndarray is [shape |-> <<n1,..>>, data |-> row-major elements]     *)
(*  - a Result is [tag |-> "Ok"|"Err"|"Panic", val |-> value or message]   *)
(*    ("Panic" is an unwrap()/expect() that unwinds instead of returning)  *)
(*  - an HDF5 node is [kind |-> "dataset"|"group", shape, data]; a group's *)
(*    data is the function from member name to node                        *)
(*  - floating point values are integers in a fixed unit, so the tolerant  *)
(*    comparison abs_diff_eq(.., 1e-6) is equality of the integers          *)
(***************************************************************************)
EXTENDS Integers, Sequences, FiniteSets, TLC

VARIABLES fs, obj, origin, src, res

vars == <<fs, obj, origin, src, res>>

\* ------------------------------------------------------------------------
\* Bounds of the model
\* ------------------------------------------------------------------------
MaxN == 2

\* ------------------------------------------------------------------------
\* Option and Result
\* ------------------------------------------------------------------------
None == <<>>
Some(v) == <<v>>
IsSome(o) == Len(o) = 1
IsNone(o) == Len(o) = 0
Unwrap(o) == o[1]

Ok(v) == [tag |-> "Ok", val |-> v]
Err(m) == [tag |-> "Err", val |-> m]
Panic(m) == [tag |-> "Panic", val |-> m]
IsOk(r) == r.tag = "Ok"

\* An error message: the text and the name or number it carries.
Msg(text, arg) == [text |-> text, arg |-> arg]

\* ------------------------------------------------------------------------
\* Strings
\* ------------------------------------------------------------------------
Upper == <<"A","B","C","D","E","F","G","H","I","J","K","L","M",
           "N","O","P","Q","R","S","T","U","V","W","X","Y","Z">>
Lower == <<"a","b","c","d","e","f","g","h","i","j","k","l","m",
           "n","o","p","q","r","s","t","u","v","w","x","y","z">>
Digits == <<"0","1","2","3","4","5","6","7","8","9">>

\* The characters of the model in ASCII order (byte order of String's Ord).
Alphabet == <<"\n", " ", ",", "-", ".", "/">> \o Digits \o Upper \o <<"_">> \o Lower

IndexIn(seq, c) == CHOOSE i \in 1..Len(seq) : seq[i] = c

CharCode(c) == IndexIn(Alphabet, c)

\* char::to_lowercase on ASCII
LowerChar(c) ==
    IF \E i \in 1..Len(Upper) : Upper[i] = c THEN Lower[IndexIn(Upper, c)] ELSE c

\* str::to_lowercase
to_lowercase(s) == [i \in 1..Len(s) |-> LowerChar(s[i])]

is_whitespace(c) == c \in {" ", "\n", "\t"}

RECURSIVE TrimStart(_)
TrimStart(s) ==
    IF s # <<>> /\ is_whitespace(Head(s)) THEN TrimStart(Tail(s)) ELSE s

RECURSIVE TrimEnd(_)
TrimEnd(s) ==
    IF s # <<>> /\ is_whitespace(s[Len(s)])
    THEN TrimEnd(SubSeq(s, 1, Len(s) - 1)) ELSE s

\* str::trim_matches(char::is_whitespace)
trim_matches(s) == TrimEnd(TrimStart(s))

\* str::replace(c, "") for a one-character pattern
RECURSIVE replace(_, _)
replace(s, c) ==
    IF s = <<>> THEN <<>>
    ELSE IF Head(s) = c THEN replace(Tail(s), c)
    ELSE <<Head(s)>> \o replace(Tail(s), c)

\* str::contains
contains(s, pat) ==
    \E i \in 0..(Len(s) - Len(pat)) : SubSeq(s, i + 1, i + Len(pat)) = pat

\* String's Ord: lexicographic on bytes
RECURSIVE StrLess(_, _)
StrLess(a, b) ==
    IF b = <<>> THEN FALSE
    ELSE IF a = <<>> THEN TRUE
    ELSE IF Head(a) # Head(b) THEN CharCode(Head(a)) < CharCode(Head(b))
    ELSE StrLess(Tail(a), Tail(b))

\* u32 / f32 integral value to_string
RECURSIVE NatToStr(_)
NatToStr(n) ==
    IF n < 10 THEN <<Digits[n + 1]>>
    ELSE NatToStr(n \div 10) \o <<Digits[(n % 10) + 1]>>

\* hdf5 FixedAscii::<N>::from_ascii: fails when the text exceeds the capacity
FixedAscii_from_ascii(cap, s) ==
    IF Len(s) > cap THEN Err(Msg("InsufficientCapacity", cap)) ELSE Ok(s)

\* ------------------------------------------------------------------------
\* ndarray
\* ------------------------------------------------------------------------
RECURSIVE Prod(_)
Prod(s) == IF s = <<>> THEN 1 ELSE Head(s) * Prod(Tail(s))

NdArray(shape, data) == [shape |-> shape, data |-> data]

\* Array::from_elem(shape, v) / Array::zeros(shape)
from_elem(shape, v) == NdArray(shape, [i \in 1..Prod(shape) |-> v])

Array1(seq) == NdArray(<<Len(seq)>>, seq)

ndim(a) == Len(a.shape)

\* ArrayBase::remove_axis(Axis(ax)) = index_axis_move(ax, 0): the elements at
\* index 0 of the axis; panics when the axis is empty.  ax is 1-based here.
remove_axis(a, ax) ==
    LET n     == a.shape[ax]
        inner == Prod(SubSeq(a.shape, ax + 1, Len(a.shape)))
        outer == Prod(SubSeq(a.shape, 1, ax - 1))
        shp   == SubSeq(a.shape, 1, ax - 1) \o SubSeq(a.shape, ax + 1, Len(a.shape))
    IN IF n = 0 THEN Panic(Msg("index out of bounds", 0))
       ELSE Ok(NdArray(shp,
              [k \in 1..(outer * inner) |->
                 a.data[((k - 1) \div inner) * n * inner + ((k - 1) % inner) + 1]]))

\* ------------------------------------------------------------------------
\* String literals of the program
\* ------------------------------------------------------------------------
S_uncalib == <<"u","n","c","a","l","i","b">>
S_jy == <<"j","y">>
S_k_str == <<"k"," ","s","t","r">>
S_drift == <<"d","r","i","f","t">>
S_phased == <<"p","h","a","s","e","d">>
S_multi == <<"m","u","l","t","i">>
S_divide == <<"d","i","v","i","d","e">>
S_multiply == <<"m","u","l","t","i","p","l","y">>
S_unknown == <<"u","n","k","n","o","w","n">>
S_east == <<"e","a","s","t">>
S_north == <<"n","o","r","t","h">>
S_bda_comma == <<"b","d","a",",">>
S_unknown_unknown == S_unknown \o <<",", " ">> \o S_unknown
S_zenith == <<"z","e","n","i","t","h">>
S_unphased == <<"u","n","p","h","a","s","e","d">>
S_sidereal == <<"s","i","d","e","r","e","a","l">>
S_ephem == <<"e","p","h","e","m">>
S_UVData == <<"U","V","D","a","t","a">>
S_Unknown == <<"U","n","k","n","o","w","n">>

\* ------------------------------------------------------------------------
\* base.rs: enumerations.  A variant is the string of its Rust name.
\* ------------------------------------------------------------------------
VisUnits == {"Uncalib", "Jansky", "Kelvinstr"}
PhaseTypes == {"Drift", "Phased", "Multi"}
EqConventions == {"Divide", "Multiply", "Unknown"}
Orientations == {"East", "North", "Unknown"}
BltOrdersSet == {"Ant1", "Ant2", "Time", "Baseline", "Bda", "Unknown"}

\* #[derive(Debug)] on a field-less enum prints the variant's name; every
\* Display impl of base.rs forwards to it.
DebugFmt(v) ==
    CASE v = "Uncalib" -> <<"U","n","c","a","l","i","b">>
      [] v = "Jansky" -> <<"J","a","n","s","k","y">>
      [] v = "Kelvinstr" -> <<"K","e","l","v","i","n","s","t","r">>
      [] v = "Drift" -> <<"D","r","i","f","t">>
      [] v = "Phased" -> <<"P","h","a","s","e","d">>
      [] v = "Multi" -> <<"M","u","l","t","i">>
      [] v = "Divide" -> <<"D","i","v","i","d","e">>
      [] v = "Multiply" -> <<"M","u","l","t","i","p","l","y">>
      [] v = "Unknown" -> <<"U","n","k","n","o","w","n">>
      [] v = "East" -> <<"E","a","s","t">>
      [] v = "North" -> <<"N","o","r","t","h">>
      [] v = "Ant1" -> <<"A","n","t","1">>
      [] v = "Ant2" -> <<"A","n","t","2">>
      [] v = "Time" -> <<"T","i","m","e">>
      [] v = "Baseline" -> <<"B","a","s","e","l","i","n","e">>
      [] v = "Bda" -> <<"B","d","a">>

VisUnit_to_string(v) == DebugFmt(v)
PhaseType_to_string(v) == DebugFmt(v)
EqConvention_to_string(v) == DebugFmt(v)
Orientation_to_string(v) == DebugFmt(v)
BltOrders_to_string(v) == DebugFmt(v)

\* what every from_str matches on
Canon(input) == to_lowercase(trim_matches(input))

\* a parser for VisUnit that falls back on Uncalib
VisUnit_match_or_default(s) ==
    CASE s = S_jy -> Ok("Jansky")
      [] s = S_k_str -> Ok("Kelvinstr")
      [] OTHER -> Ok("Uncalib")

\* the arms of each from_str, on the trimmed and lowercased input
VisUnit_match(s) ==
    CASE s = S_uncalib -> Ok("Uncalib")
      [] s = S_jy -> Ok("Jansky")
      [] s = S_k_str -> Ok("Kelvinstr")
      [] OTHER -> Err(Msg("Unknown Visibility Unit", s))

VisUnit_from_str(input) == VisUnit_match(Canon(input))

PhaseType_match(s) ==
    CASE s = S_drift -> Ok("Drift")
      [] s = S_phased -> Ok("Phased")
      [] s = S_multi -> Ok("Multi")
      [] OTHER -> Err(Msg("Unknown phase type", s))

PhaseType_from_str(input) == PhaseType_match(Canon(input))

EqConvention_match(s) ==
    CASE s = S_divide -> Ok("Divide")
      [] s = S_multiply -> Ok("Multiply")
      [] s = S_unknown -> Ok("Unknown")
      [] OTHER -> Err(Msg("Unknown Equalization Convention", s))

EqConvention_from_str(input) == EqConvention_match(Canon(input))

Orientation_match(s) ==
    CASE s = S_east -> Ok("East")
      [] s = S_north -> Ok("North")
      [] s = S_unknown -> Ok("Unknown")
      [] OTHER -> Err(Msg("Unknown Equalization Convention", s))

Orientation_from_str(input) == Orientation_match(Canon(input))

BltOrder(major, minor) == [major |-> major, minor |-> minor]

\* Display for BltOrder: "{major}, {minor}" of the lowercased keys
BltOrder_to_string(o) ==
    to_lowercase(BltOrders_to_string(o.major)) \o <<",", " ">>
        \o to_lowercase(BltOrders_to_string(o.minor))

\* the twelve pairs FromStr for BltOrder lists
BltPairs ==
    { <<"Baseline", "Time">>, <<"Baseline", "Ant1">>, <<"Baseline", "Ant2">>,
      <<"Time", "Baseline">>, <<"Time", "Ant1">>, <<"Time", "Ant2">>,
      <<"Ant1", "Ant2">>, <<"Ant1", "Time">>, <<"Ant1", "Baseline">>,
      <<"Ant2", "Ant1">>, <<"Ant2", "Time">>, <<"Ant2", "Baseline">> }

\* the listed pairs whose "major, minor" text is s
BltHits(s) == { p \in BltPairs : s = BltOrder_to_string(BltOrder(p[1], p[2])) }

BltOrder_match(s) ==
    CASE s = S_bda_comma -> Ok(BltOrder("Bda", "Bda"))
      [] s = S_unknown -> Ok(BltOrder("Unknown", "Unknown"))
      [] BltHits(s) # {} ->
           Ok(CHOOSE o \in { BltOrder(p[1], p[2]) : p \in BltHits(s) } : TRUE)
      [] OTHER -> Err(Msg("Unknown Blt Ordering", s))

BltOrder_from_str(input) == BltOrder_match(Canon(input))

\* ------------------------------------------------------------------------
\* base.rs: phase center catalog
\* ------------------------------------------------------------------------
UnphasedVal(id, type) ==
    [variant |-> "Unphased", cat_id |-> id, cat_type |-> type]

SiderealVal(id, type, lon, lat, frame, epoch, pm_ra, pm_dec, dist, vrad, info) ==
    [variant |-> "Sidereal", cat_id |-> id, cat_type |-> type, cat_lon |-> lon,
     cat_lat |-> lat, cat_frame |-> frame, cat_epoch |-> epoch,
     cat_pm_ra |-> pm_ra, cat_pm_dec |-> pm_dec, cat_dist |-> dist,
     cat_vrad |-> vrad, info_source |-> info]

EphemVal(id, type, lon, lat, frame, epoch, dist, vrad, info) ==
    [variant |-> "Ephem", cat_id |-> id, cat_type |-> type, cat_lon |-> lon,
     cat_lat |-> lat, cat_frame |-> frame, cat_epoch |-> epoch,
     cat_dist |-> dist, cat_vrad |-> vrad, info_source |-> info]

\* PartialEq of CatTypes (derived over the variants; the tolerant comparisons
\* of SiderealVal and EphemVal are equality in the model's fixed unit)
CatTypes_eq(a, b) ==
    /\ a.variant = b.variant
    /\ a = b

\* Catalog = BTreeMap<String, CatTypes>
Catalog_new == [n \in {} |-> 0]

Catalog_insert(cat, name, val) ==
    [n \in (DOMAIN cat) \cup {name} |-> IF n = name THEN val ELSE cat[n]]

Catalog_eq(a, b) ==
    /\ DOMAIN a = DOMAIN b
    /\ \A n \in DOMAIN a : CatTypes_eq(a[n], b[n])

\* the first key of the map's iteration order
Catalog_first(cat) ==
    CHOOSE n \in DOMAIN cat : \A m \in DOMAIN cat : m = n \/ StrLess(n, m)

\* BTreeMap iteration order: the keys in ascending order
RECURSIVE Catalog_keys(_)
Catalog_keys(cat) ==
    IF DOMAIN cat = {} THEN <<>>
    ELSE LET k == Catalog_first(cat)
         IN <<k>> \o Catalog_keys([n \in (DOMAIN cat) \ {k} |-> cat[n]])

\* ------------------------------------------------------------------------
\* utils.rs
\* ------------------------------------------------------------------------
\* The geodetic conversions evaluate trigonometric formulas in f64; the model
\* tabulates them at the locations it uses.  Cartesian metres and altitudes
\* are in centimetres, angles in millionths of a degree or of a radian; each
\* row is the value the formulas of utils.rs give, rounded to that unit:
\* xyz is xyz_from_latlonalt of lla, rad is latlonalt_from_xyz of xyz and
\* deg is rad with its two angles converted by f64::to_degrees.
GeoRows ==
    { [lla |-> <<180000000, 0, -637813700>>,
       xyz |-> <<0, 0, 0>>,
       rad |-> <<3141593, 0, -637813700>>,
       deg |-> <<180000000, 0, -637813700>>],
      [lla |-> <<-26700000, 116700000, 37780>>,
       xyz |-> <<-256212343, 509421540, -284872859>>,
       rad |-> <<-466003, 2036799, 37780>>,
       deg |-> <<-26700000, 116700000, 37780>>],
      [lla |-> <<0, 0, 0>>,
       xyz |-> <<637813700, 0, 0>>,
       rad |-> <<0, 0, 0>>,
       deg |-> <<0, 0, 0>>],
      [lla |-> <<90000000, 0, 0>>,
       xyz |-> <<0, 0, 635675231>>,
       rad |-> <<1570796, 0, 0>>,
       deg |-> <<90000000, 0, 0>>],
      [lla |-> <<-90000000, 0, 10000>>,
       xyz |-> <<0, 0, -635685231>>,
       rad |-> <<-1570796, 0, 10000>>,
       deg |-> <<-90000000, 0, 10000>>],
      [lla |-> <<45000000, 180000000, 100000>>,
       xyz |-> <<-451829799, 0, 448805552>>,
       rad |-> <<785398, 3141593, 100000>>,
       deg |-> <<45000000, 180000000, 100000>>],
      [lla |-> <<-30720000, 21430000, 107300>>,
       xyz |-> <<510936401, 200542462, -323979384>>,
       rad |-> <<-536165, 374024, 107300>>,
       deg |-> <<-30720000, 21430000, 107300>>],
      [lla |-> <<34080000, -107620000, 212400>>,
       xyz |-> <<-160131195, -504186785, 355499003>>,
       rad |-> <<594808, -1878323, 212400>>,
       deg |-> <<34080000, -107620000, 212400>>],
      [lla |-> <<0, -90000000, -40000>>,
       xyz |-> <<0, -637773700, 0>>,
       rad |-> <<0, -1570796, -40000>>,
       deg |-> <<0, -90000000, -40000>>],
      [lla |-> <<54800000, 30000000, 884800>>,
       xyz |-> <<319555523, 184495467, 519581152>>,
       rad |-> <<956440, 523599, 884800>>,
       deg |-> <<54800000, 30000000, 884800>>],
      [lla |-> <<45000000, 270000000, 100000>>,
       xyz |-> <<0, -451829799, 448805552>>,
       rad |-> <<785398, -1570796, 100000>>,
       deg |-> <<45000000, -90000000, 100000>>],
      [lla |-> <<54800000, 30000000, 100000000>>,
       xyz |-> <<369034330, 213062070, 600572632>>,
       rad |-> <<956440, 523599, 100000001>>,
       deg |-> <<54800000, 30000000, 100000001>>] }

Locations == { r.xyz : r \in GeoRows }
LatLonAlts == { r.lla : r \in GeoRows }

\* xyz_from_latlonalt(lat, lon, alt), angles in degrees
\* (an input the table lacks gives a point the table lacks)
xyz_from_latlonalt(lat, lon, alt) ==
    IF <<lat, lon, alt>> \in LatLonAlts
    THEN (CHOOSE r \in GeoRows : r.lla = <<lat, lon, alt>>).xyz
    ELSE <<lat, lon, alt>>

\* latlonalt_from_xyz(xyz), angles in radians
latlonalt_from_xyz(xyz) ==
    (CHOOSE r \in GeoRows : r.xyz = xyz).rad

\* the angle is left in radians
to_degrees_skipped(k, x) == x

\* f64::to_degrees of an angle latlonalt_from_xyz returned, by position
to_degrees(k, x) ==
    (CHOOSE r \in GeoRows : r.rad[k] = x).deg[k]

\* u32 arithmetic of  m * (a1 + 1) + (a2 + 1) + off  with m = 2^k a power of
\* two: with q = a1 + 1 and r = a2 + 1 + off the sum is m*(q + r \div m) +
\* r % m, which exceeds u32 exactly when q + r \div m >= 2^32 / m, and wraps
\* to m * ((q + r \div m) % (2^32 / m)) + r % m.
PackOverflows(m, lim, a1, a2, off) ==
    (a1 + 1) + ((a2 + 1 + off) \div m) >= lim

PackWrapped(m, lim, a1, a2, off) ==
    m * (((a1 + 1) + ((a2 + 1 + off) \div m)) % lim) + ((a2 + 1 + off) % m)

\* one element of antnums_to_baseline; checks is the build's overflow-checks
\* setting (a debug build panics on overflow, a release build wraps)
baseline_of(a1, a2, attempt256, checks) ==
    LET m   == IF attempt256 THEN 256 ELSE 2048
        lim == IF attempt256 THEN 16777216 ELSE 2097152
        off == IF attempt256 THEN 0 ELSE 65536
    IN IF checks /\ PackOverflows(m, lim, a1, a2, off)
       THEN Panic(Msg("attempt to multiply with overflow", a1))
       ELSE Ok(PackWrapped(m, lim, a1, a2, off))

\* antnums_to_baseline(ant1, ant2, attempt256): azip! over the three arrays
\* panics when their shapes differ
antnums_to_baseline(ant1, ant2, attempt256, checks) ==
    LET n  == Len(ant1.data)
        bl == [i \in 1..n |-> baseline_of(ant1.data[i], ant2.data[i], attempt256, checks)]
    IN IF Len(ant2.data) # n THEN Panic(Msg("azip shape mismatch", n))
       ELSE IF \E i \in 1..n : ~IsOk(bl[i])
       THEN bl[CHOOSE i \in 1..n : ~IsOk(bl[i]) /\ \A j \in 1..(i - 1) : IsOk(bl[j])]
       ELSE Ok(Array1([i \in 1..n |-> bl[i].val]))

\* one element of baseline_to_antnums, in u32; a value above 2^31 - 1 is held
\* as the negative integer with the same 32 bits (x - 2^32), so that a wrapped
\* 0 - 1 is -1.  2^32 is a multiple of the modulus: the remainder of a held
\* value is the remainder of the value, and the quotient of a negative held
\* multiple t of the modulus is 2^32 / modulus + t \div modulus.
antnums_of_no_offset(x, use256) ==
    LET modulus == IF use256 THEN 256 ELSE 2048
        lim == IF use256 THEN 16777216 ELSE 2097152
        a2  == (x % modulus) - 1
        t   == x - (a2 + 1)
        q   == IF t >= 0 THEN t \div modulus ELSE lim + (t \div modulus)
    IN [ant1 |-> q - 1, ant2 |-> a2, underflow |-> a2 < 0 \/ q = 0]

antnums_of(x, use256) ==
    LET modulus == IF use256 THEN 256 ELSE 2048
        lim == IF use256 THEN 16777216 ELSE 2097152
        bl  == IF use256 THEN x ELSE x - 65536
        a2  == (bl % modulus) - 1
        t   == bl - (a2 + 1)
        q   == IF t >= 0 THEN t \div modulus ELSE lim + (t \div modulus)
    IN [ant1 |-> q - 1, ant2 |-> a2, underflow |-> bl < 0 \/ a2 < 0 \/ q = 0]

\* baseline_to_antnums(baselines, use256): (ant1, ant2); a subtraction below
\* zero panics in a build with overflow checks and wraps in one without
baseline_to_antnums(baselines, use256, checks) ==
    LET n == Len(baselines.data)
    IN IF checks /\ \E i \in 1..n : antnums_of(baselines.data[i], use256).underflow
       THEN Panic(Msg("attempt to subtract with overflow", n))
       ELSE Ok(<< Array1([i \in 1..n |-> antnums_of(baselines.data[i], use256).ant1]),
                  Array1([i \in 1..n |-> antnums_of(baselines.data[i], use256).ant2]) >>)

\* ------------------------------------------------------------------------
\* base.rs: UVMeta
\* ------------------------------------------------------------------------
UVMeta_new ==
    [nbls |-> 0, nblts |-> 0, npols |-> 0, nspws |-> 0, ntimes |-> 0,
     nfreqs |-> 0, nphases |-> 1, nants_data |-> 0, nants_telescope |-> 0,
     blt_order |-> BltOrder("Unknown", "Unknown"),
     x_orientation |-> "Unknown", phase_type |-> "Drift",
     vis_units |-> "Uncalib", instrument |-> S_Unknown,
     telescope_name |-> S_Unknown, telescope_location |-> <<0, 0, 0>>,
     object_name |-> S_Unknown, eq_coeffs_convention |-> "Unknown",
     dut1 |-> None, gst0 |-> None, rdate |-> None, earth_omega |-> None,
     timesys |-> None, uvplane_reference_time |-> None, history |-> <<>>]

\* PartialEq for UVMeta without the comparison of history
UVMeta_eq_but_history(a, b) ==
    /\ a.nbls = b.nbls /\ a.nblts = b.nblts /\ a.nspws = b.nspws
    /\ a.npols = b.npols /\ a.ntimes = b.ntimes /\ a.nfreqs = b.nfreqs
    /\ a.nphases = b.nphases /\ a.nants_data = b.nants_data
    /\ a.blt_order = b.blt_order /\ a.vis_units = b.vis_units
    /\ a.nants_telescope = b.nants_telescope /\ a.phase_type = b.phase_type
    /\ a.x_orientation = b.x_orientation /\ a.instrument = b.instrument
    /\ a.telescope_name = b.telescope_name
    /\ \A k \in 1..3 : a.telescope_location[k] = b.telescope_location[k]
    /\ a.object_name = b.object_name
    /\ a.eq_coeffs_convention = b.eq_coeffs_convention
    /\ a.dut1 = b.dut1 /\ a.gst0 = b.gst0 /\ a.rdate = b.rdate
    /\ a.earth_omega = b.earth_omega /\ a.timesys = b.timesys
    /\ a.uvplane_reference_time = b.uvplane_reference_time

\* PartialEq for UVMeta
UVMeta_eq(a, b) == UVMeta_eq_but_history(a, b) /\ a.history = b.history

\* ------------------------------------------------------------------------
\* base.rs: ArrayMetaData
\* ------------------------------------------------------------------------
\* a seeding that numbers the phases from 1
RECURSIVE SeedCatalog_from_one(_)
SeedCatalog_from_one(nphases) ==
    IF nphases = 0 THEN Catalog_new
    ELSE Catalog_insert(SeedCatalog_from_one(nphases - 1),
                        S_zenith \o <<"_">> \o NatToStr(nphases),
                        UnphasedVal(nphases, S_unphased))

\* the catalog ArrayMetaData::new seeds: "zenith_<phase>" for phase < nphases
RECURSIVE SeedCatalog(_)
SeedCatalog(nphases) ==
    IF nphases = 0 THEN Catalog_new
    ELSE Catalog_insert(SeedCatalog(nphases - 1),
                        S_zenith \o <<"_">> \o NatToStr(nphases - 1),
                        UnphasedVal(nphases - 1, S_unphased))

ArrayMetaData_new(meta) ==
    [spw_array |-> from_elem(<<meta.nspws>>, 0),
     uvw_array |-> from_elem(<<meta.nblts, 3>>, 0),
     time_array |-> from_elem(<<meta.nblts>>, 0),
     lst_array |-> from_elem(<<meta.nblts>>, 0),
     ant_1_array |-> from_elem(<<meta.nblts>>, 0),
     ant_2_array |-> from_elem(<<meta.nblts>>, 0),
     baseline_array |-> from_elem(<<meta.nblts>>, 0),
     freq_array |-> from_elem(<<meta.nfreqs>>, 0),
     spw_id_array |-> from_elem(<<meta.nfreqs>>, 0),
     polarization_array |-> from_elem(<<meta.npols>>, 0),
     integration_time |-> from_elem(<<meta.nblts>>, 0),
     channel_width |-> from_elem(<<meta.nfreqs>>, 0),
     antenna_numbers |-> from_elem(<<meta.nants_telescope>>, 0),
     antenna_names |-> Array1([i \in 1..meta.nblts |-> NatToStr(i - 1)]),
     antenna_positions |-> from_elem(<<meta.nants_telescope, 3>>, 0),
     eq_coeffs |-> None,
     antenna_diameters |-> None,
     phase_center_catalog |-> SeedCatalog(meta.nphases),
     phase_center_id_array |-> from_elem(<<meta.nblts>>, 0)]

\* PartialEq for ArrayMetaData
ArrayMetaData_eq(a, b) ==
    /\ a.spw_array = b.spw_array /\ a.uvw_array = b.uvw_array
    /\ a.time_array = b.time_array /\ a.lst_array = b.lst_array
    /\ a.ant_1_array = b.ant_1_array /\ a.ant_2_array = b.ant_2_array
    /\ a.baseline_array = b.baseline_array /\ a.freq_array = b.freq_array
    /\ a.spw_id_array = b.spw_id_array
    /\ a.polarization_array = b.polarization_array
    /\ a.integration_time = b.integration_time
    /\ a.channel_width = b.channel_width
    /\ a.antenna_numbers = b.antenna_numbers
    /\ a.antenna_names = b.antenna_names
    /\ a.antenna_positions = b.antenna_positions
    /\ a.eq_coeffs = b.eq_coeffs
    /\ a.antenna_diameters = b.antenna_diameters
    /\ Catalog_eq(a.phase_center_catalog, b.phase_center_catalog)
    /\ a.phase_center_id_array = b.phase_center_id_array

\* ------------------------------------------------------------------------
\* lib.rs: UVData
\* ------------------------------------------------------------------------
\* Complex<T>
Complex(re, im) == [re |-> re, im |-> im]

UVData(meta, meta_arrays, data_array, nsample_array, flag_array) ==
    [meta |-> meta, meta_arrays |-> meta_arrays, data_array |-> data_array,
     nsample_array |-> nsample_array, flag_array |-> flag_array]

\* a variant of the cube shape that takes the frequency axis for the time axis
NewCubeShape_freqs(meta) == <<meta.nblts, meta.nfreqs, meta.npols>>

\* the cubes UVData::new allocates when metadata_only is false
NewCubeShape(meta) == <<meta.nblts, meta.ntimes, meta.npols>>

\* a variant of UVData::new that allocates the visibilities alone
UVData_new_data_only(meta, metadata_only) ==
    IF metadata_only
    THEN UVData(meta, ArrayMetaData_new(meta), None, None, None)
    ELSE UVData(meta, ArrayMetaData_new(meta),
                Some(from_elem(<<meta.nblts, meta.ntimes, meta.npols>>, Complex(0, 0))),
                None, None)

\* UVData::new(meta, metadata_only)
UVData_new(meta, metadata_only) ==
    IF metadata_only
    THEN UVData(meta, ArrayMetaData_new(meta), None, None, None)
    ELSE UVData(meta, ArrayMetaData_new(meta),
                Some(from_elem(NewCubeShape(meta), Complex(0, 0))),
                Some(from_elem(NewCubeShape(meta), 0)),
                Some(from_elem(NewCubeShape(meta), FALSE)))

\* From<UVMeta> for UVData
UVData_from_meta(meta) == UVData_new(meta, TRUE)

\* From<(UVMeta, bool)> for UVData
UVData_from_pair(meta, metadata_only) == UVData_new(meta, metadata_only)

\* compare_complex_arrays / abs_diff_eq on Option<Array>: both unset, or both
\* set and equal in shape and elements
OptArray_eq(a, b) == a = b

\* PartialEq for UVData without the comparison of meta.history
UVData_eq_but_history(a, b) ==
    /\ UVMeta_eq_but_history(a.meta, b.meta)
    /\ ArrayMetaData_eq(a.meta_arrays, b.meta_arrays)
    /\ OptArray_eq(a.data_array, b.data_array)
    /\ OptArray_eq(a.nsample_array, b.nsample_array)
    /\ OptArray_eq(a.flag_array, b.flag_array)

\* PartialEq for UVData
UVData_eq(a, b) == UVData_eq_but_history(a, b) /\ a.meta.history = b.meta.history

\* ------------------------------------------------------------------------
\* The HDF5 store (hdf5 crate), as uvh5.rs uses it
\* ------------------------------------------------------------------------
Dataset(shape, data) == [kind |-> "dataset", shape |-> shape, data |-> data]
ScalarDs(v) == Dataset(<<>>, <<v>>)
ArrayDs(a) == Dataset(a.shape, a.data)
GroupNode(members) == [kind |-> "group", shape |-> <<>>, data |-> members]

NoMembers == [n \in {} |-> 0]

With(members, name, node) ==
    [n \in (DOMAIN members) \cup {name} |-> IF n = name THEN node ELSE members[n]]

Without(members, name) == [n \in (DOMAIN members) \ {name} |-> members[n]]

\* a file is the function from the names of its top-level groups ("Header",
\* "Data") to their members
EmptyFile == [g \in {} |-> NoMembers]

\* Group::link_exists
link_exists(group, name) == name \in DOMAIN group

\* Group::dataset(name)
open_dataset(group, name) ==
    IF name \notin DOMAIN group THEN Err(Msg("unable to open dataset", name))
    ELSE IF group[name].kind # "dataset" THEN Err(Msg("not a dataset", name))
    ELSE Ok(group[name])

\* Dataset::read_scalar::<T>() of an opened dataset
scalar_of(d, name) ==
    IF ~IsOk(d) THEN d
    ELSE IF Len(d.val.shape) # 0 THEN Err(Msg("ndim mismatch: expected scalar", name))
    ELSE Ok(d.val.data[1])

\* group.dataset(name)?.read_scalar::<T>()?
dataset_read_scalar(group, name) == scalar_of(open_dataset(group, name), name)

\* Dataset::read::<T, IxN>() of an opened dataset
array_of(d, name, n) ==
    IF ~IsOk(d) THEN d
    ELSE IF Len(d.val.shape) # n THEN Err(Msg("ndim mismatch", name))
    ELSE Ok(NdArray(d.val.shape, d.val.data))

\* group.dataset(name)?.read::<T, IxN>()?
dataset_read(group, name, n) == array_of(open_dataset(group, name), name, n)

\* Ok(Some(v)) of a read that gave v
some_of(r) == IF IsOk(r) THEN Ok(Some(r.val)) ELSE r

\* uvh5.rs read_scalar(header, param): Ok(None) when the link is absent
read_scalar(header, param) ==
    IF link_exists(header, param)
    THEN some_of(dataset_read_scalar(header, param))
    ELSE Ok(None)

\* Option::unwrap of a Result<Option<T>> already passed through `?`
unwrap_field(r, name) ==
    IF ~IsOk(r) THEN r
    ELSE IF IsNone(r.val)
    THEN Panic(Msg("called Option::unwrap() on a None value", name))
    ELSE Ok(Unwrap(r.val))

\* read_scalar(header, param)?.unwrap()
read_required(header, param) == unwrap_field(read_scalar(header, param), param)


\* ------------------------------------------------------------------------
\* uvh5.rs: version stamp
\* ------------------------------------------------------------------------
\* env!("CARGO_PKG_VERSION")
VERSION_STR == <<"0", ".", "1", ".", "0">>

print_version_str ==
    <<" ","R","e","a","d","/","W","r","i","t","t","e","n"," ","w","i","t","h",
      " ","u","v","d","a","t","a","-","r","u","s","t"," ">> \o VERSION_STR \o <<".">>

Squeezed(s) == replace(replace(s, " "), "\n")

\* a stamp step that appends the version string whatever the history holds
stamp_always(history) == history \o print_version_str

\* append the version string if it is not already there
stamp(history) ==
    IF ~contains(Squeezed(history), Squeezed(print_version_str))
    THEN history \o print_version_str
    ELSE history

\* ------------------------------------------------------------------------
\* The JSON of a catalog entry (serde_json, #[serde(untagged)] CatTypes)
\* ------------------------------------------------------------------------
JNum(v) == [t |-> "num", v |-> v]
JStr(v) == [t |-> "str", v |-> v]
JNull == [t |-> "null", v |-> 0]
\* ndarray's serialization of Array<f64, Ix1>
JNdArray(a) == [t |-> "ndarray", v |-> a.data]

JOptNum(o) == IF IsSome(o) THEN JNum(Unwrap(o)) ELSE JNull
JOptStr(o) == IF IsSome(o) THEN JStr(Unwrap(o)) ELSE JNull
JOptNd(o) == IF IsSome(o) THEN JNdArray(Unwrap(o)) ELSE JNull

JObject(fields) == [json |-> "object", fields |-> fields]
JInvalid == [json |-> "invalid", fields |-> NoMembers]

\* serde_json::to_string(&CatTypes): the fields of the variant's struct
json_to_string(c) ==
    LET common == [cat_id |-> JNum(c.cat_id), cat_type |-> JStr(c.cat_type)]
    IN CASE c.variant = "Unphased" -> JObject(common)
         [] c.variant = "Sidereal" ->
              JObject([cat_id |-> JNum(c.cat_id), cat_type |-> JStr(c.cat_type),
                       cat_lon |-> JNum(c.cat_lon), cat_lat |-> JNum(c.cat_lat),
                       cat_frame |-> JStr(c.cat_frame), cat_epoch |-> JNum(c.cat_epoch),
                       cat_pm_ra |-> JOptNum(c.cat_pm_ra),
                       cat_pm_dec |-> JOptNum(c.cat_pm_dec),
                       cat_dist |-> JOptNum(c.cat_dist),
                       cat_vrad |-> JOptNum(c.cat_vrad),
                       info_source |-> JOptStr(c.info_source)])
         [] c.variant = "Ephem" ->
              JObject([cat_id |-> JNum(c.cat_id), cat_type |-> JStr(c.cat_type),
                       cat_lon |-> JNdArray(c.cat_lon), cat_lat |-> JNdArray(c.cat_lat),
                       cat_frame |-> JStr(c.cat_frame), cat_epoch |-> JNum(c.cat_epoch),
                       cat_dist |-> JOptNd(c.cat_dist),
                       cat_vrad |-> JOptNd(c.cat_vrad),
                       info_source |-> JOptStr(c.info_source)])

\* a required field of type t is present; an Option field is absent, null or
\* of type t
JHas(f, k, t) == k \in DOMAIN f /\ f[k].t = t
JOpt(f, k, t) == k \notin DOMAIN f \/ f[k].t \in {t, "null"}
JGetOpt(f, k) == IF k \in DOMAIN f /\ f[k].t # "null" THEN Some(f[k].v) ELSE None

\* derived Deserialize of each struct: unknown keys are ignored
UnphasedShape(f) == JHas(f, "cat_id", "num") /\ JHas(f, "cat_type", "str")

SiderealShape(f) ==
    /\ JHas(f, "cat_id", "num") /\ JHas(f, "cat_type", "str")
    /\ JHas(f, "cat_lon", "num") /\ JHas(f, "cat_lat", "num")
    /\ JHas(f, "cat_frame", "str") /\ JHas(f, "cat_epoch", "num")
    /\ JOpt(f, "cat_pm_ra", "num") /\ JOpt(f, "cat_pm_dec", "num")
    /\ JOpt(f, "cat_dist", "num") /\ JOpt(f, "cat_vrad", "num")
    /\ JOpt(f, "info_source", "str")

EphemShape(f) ==
    /\ JHas(f, "cat_id", "num") /\ JHas(f, "cat_type", "str")
    /\ JHas(f, "cat_lon", "ndarray") /\ JHas(f, "cat_lat", "ndarray")
    /\ JHas(f, "cat_frame", "str") /\ JHas(f, "cat_epoch", "num")
    /\ JOpt(f, "cat_dist", "ndarray") /\ JOpt(f, "cat_vrad", "ndarray")
    /\ JOpt(f, "info_source", "str")

JOptArr(f, k) == IF IsSome(JGetOpt(f, k)) THEN Some(Array1(Unwrap(JGetOpt(f, k)))) ELSE None

\* serde_json::from_str::<CatTypes>: the variants are tried in the order of
\* their declaration and the first whose struct deserializes is taken
json_from_str(j) ==
    LET f == j.fields
    IN IF j.json # "object" THEN Err(Msg("Json Err", "syntax"))
       ELSE IF UnphasedShape(f)
       THEN Ok(UnphasedVal(f["cat_id"].v, f["cat_type"].v))
       ELSE IF SiderealShape(f)
       THEN Ok(SiderealVal(f["cat_id"].v, f["cat_type"].v, f["cat_lon"].v,
                           f["cat_lat"].v, f["cat_frame"].v, f["cat_epoch"].v,
                           JGetOpt(f, "cat_pm_ra"), JGetOpt(f, "cat_pm_dec"),
                           JGetOpt(f, "cat_dist"), JGetOpt(f, "cat_vrad"),
                           JGetOpt(f, "info_source")))
       ELSE IF EphemShape(f)
       THEN Ok(EphemVal(f["cat_id"].v, f["cat_type"].v, Array1(f["cat_lon"].v),
                        Array1(f["cat_lat"].v), f["cat_frame"].v, f["cat_epoch"].v,
                        JOptArr(f, "cat_dist"), JOptArr(f, "cat_vrad"),
                        JGetOpt(f, "info_source")))
       ELSE Err(Msg("Json Err", "data did not match any variant of untagged enum CatTypes"))

\* ------------------------------------------------------------------------
\* uvh5.rs: UVH5::to_file
\* ------------------------------------------------------------------------
\* Complexh5::from(Complex<T>) and Complex::<T>::from(Complexh5)
Complexh5_from(c) == [r |-> c.re, i |-> c.im]
Complex_from(h) == Complex(h.r, h.i)

\* One creation of a member in a group: the name, and the node written or the
\* failure that kept it from being written.
Op(name, r) == [name |-> name, r |-> r]
Put(name, node) == Op(name, Ok(node))

\* write_scalar(..) of a text that did or did not fit its FixedAscii
PutFitted(name, fitted) ==
    IF IsOk(fitted) THEN Put(name, ScalarDs(fitted.val))
    ELSE Op(name, Panic(Msg("Unable to write", name)))

\* write_scalar(group, name, &FixedAscii::<cap>::from_ascii(text).expect(..))
PutAscii(name, cap, text) == PutFitted(name, FixedAscii_from_ascii(cap, text))

PutOpt(name, o) == IF IsSome(o) THEN <<Put(name, ScalarDs(Unwrap(o)))>> ELSE <<>>

PutOptAscii(name, cap, o) == IF IsSome(o) THEN <<PutAscii(name, cap, Unwrap(o))>> ELSE <<>>

PutOptArray(name, o) == IF IsSome(o) THEN <<Put(name, ArrayDs(Unwrap(o)))>> ELSE <<>>

\* the index of the first creation that fails, or Len(ops) + 1
FailedAt(ops) ==
    IF \A i \in 1..Len(ops) : IsOk(ops[i].r) THEN Len(ops) + 1
    ELSE CHOOSE i \in 1..Len(ops) :
            ~IsOk(ops[i].r) /\ \A j \in 1..(i - 1) : IsOk(ops[j].r)

\* the node the creations before the k-th leave under `name`
CreatedAs(ops, k, name) ==
    ops[CHOOSE i \in 1..(k - 1) :
           ops[i].name = name /\ \A j \in (i + 1)..(k - 1) : ops[j].name # name].r.val

\* the creations before the k-th, run on `members`
RunUntil(members, ops, k) ==
    [r |-> IF k > Len(ops) THEN Ok(0) ELSE ops[k].r,
     members |->
        [n \in (DOMAIN members) \cup { ops[i].name : i \in 1..(k - 1) } |->
           IF \E i \in 1..(k - 1) : ops[i].name = n THEN CreatedAs(ops, k, n)
           ELSE members[n]]]

\* the creations run in order; the first failure ends the call and leaves the
\* members created before it
RunOps(members, ops) == RunUntil(members, ops, FailedAt(ops))

\* the object can be written: its data_array is set
writable(self) == IsSome(self.data_array)

\* only write out blt_order if it is known
blt_order_ops(meta) ==
    IF BltOrder_to_string(meta.blt_order) = S_unknown_unknown THEN <<>>
    ELSE <<PutAscii("blt_order", 20, BltOrder_to_string(meta.blt_order))>>

vis_units_ops(meta) ==
    <<PutAscii("vis_units", 7, to_lowercase(VisUnit_to_string(meta.vis_units)))>>

x_orientation_ops(meta) ==
    <<PutAscii("x_orientation", 5, to_lowercase(Orientation_to_string(meta.x_orientation)))>>

\* only write out eq_coeffs_convention if it is known
eq_coeffs_convention_ops(meta) ==
    IF to_lowercase(EqConvention_to_string(meta.eq_coeffs_convention)) = S_unknown
    THEN <<>>
    ELSE <<PutAscii("eq_coeffs_convention", 8,
                    to_lowercase(EqConvention_to_string(meta.eq_coeffs_convention)))>>

phase_type_op(meta) ==
    PutAscii("phase_type", 6, to_lowercase(PhaseType_to_string(meta.phase_type)))

\* the legacy scalars of a sole Sidereal entry
sidereal_ops(meta, entry) ==
    << phase_type_op(meta),
       PutAscii("phase_center_frame", 200, to_lowercase(entry.cat_frame)),
       Put("phase_center_ra", ScalarDs(entry.cat_lat)),
       Put("phase_center_dec", ScalarDs(entry.cat_lon)),
       Put("phase_center_epoch", ScalarDs(entry.cat_epoch)) >>

\* the catalog group: one JSON scalar per entry
catalog_members(cat, names) ==
    [n \in names |-> ScalarDs(json_to_string(cat[n]))]

\* match self.meta_arrays.phase_center_catalog.iter().next() { .. } with
\* nphases = 1: the creations for the sole entry, cat[name]
sole_entry_ops(meta, cat, name) ==
    CASE cat[name].variant = "Unphased" -> <<PutAscii("phase_type", 6, S_drift)>>
      [] cat[name].variant = "Sidereal" -> sidereal_ops(meta, cat[name])
      [] cat[name].variant = "Ephem" ->
           << Put("Nphase", ScalarDs(1)),
              Put("phase_center_catalog", GroupNode(catalog_members(cat, {name}))) >>

\* match self.meta.nphases { 1 => .., val => .. }
catalog_ops(self) ==
    IF self.meta.nphases = 1
    THEN IF DOMAIN self.meta_arrays.phase_center_catalog = {}
         THEN <<Op("phase_type", Err(Msg("Invalid phase center catalog entry", "None")))>>
         ELSE sole_entry_ops(self.meta, self.meta_arrays.phase_center_catalog,
                             Catalog_first(self.meta_arrays.phase_center_catalog))
    ELSE << phase_type_op(self.meta),
            Put("Nphase", ScalarDs(self.meta.nphases)),
            Put("phase_center_catalog",
                GroupNode(catalog_members(self.meta_arrays.phase_center_catalog,
                                          DOMAIN self.meta_arrays.phase_center_catalog))),
            Put("phase_center_id_array",
                ArrayDs(self.meta_arrays.phase_center_id_array)) >>

\* latitude and longitude in degrees, altitude in metres
location_ops(lla) ==
    << Put("latitude", ScalarDs(to_degrees(1, lla[1]))),
       Put("longitude", ScalarDs(to_degrees(2, lla[2]))),
       Put("altitude", ScalarDs(lla[3])) >>

\* every creation in /Header, in the order of to_file
header_ops(self) ==
    LET meta == self.meta
        arr  == self.meta_arrays
    IN << Put("Nblts", ScalarDs(meta.nblts)), Put("Nspws", ScalarDs(meta.nspws)),
          Put("Npols", ScalarDs(meta.npols)), Put("Ntimes", ScalarDs(meta.ntimes)),
          Put("Nfreqs", ScalarDs(meta.nfreqs)),
          Put("Nants_data", ScalarDs(meta.nants_data)) >>
       \o blt_order_ops(meta)
       \o << Put("Nants_telescope", ScalarDs(meta.nants_telescope)) >>
       \o vis_units_ops(meta)
       \o x_orientation_ops(meta)
       \o << PutAscii("instrument", 200, meta.instrument),
             PutAscii("telescope_name", 200, meta.telescope_name) >>
       \o location_ops(latlonalt_from_xyz(meta.telescope_location))
       \o << PutAscii("object_name", 200, meta.object_name) >>
       \o eq_coeffs_convention_ops(meta)
       \o PutOpt("dut1", meta.dut1) \o PutOpt("gst0", meta.gst0)
       \o PutOptAscii("rdate", 200, meta.rdate)
       \o PutOpt("earth_omega", meta.earth_omega)
       \o PutOptAscii("timesys", 200, meta.timesys)
       \o PutOpt("uvplane_reference_time", meta.uvplane_reference_time)
       \o << PutAscii("history", 20000, stamp(meta.history)),
             Put("spw_array", ArrayDs(arr.spw_array)),
             Put("uvw_array", ArrayDs(arr.uvw_array)),
             Put("time_array", ArrayDs(arr.time_array)),
             Put("lst_array", ArrayDs(arr.lst_array)),
             Put("ant_1_array", ArrayDs(arr.ant_1_array)),
             Put("ant_2_array", ArrayDs(arr.ant_2_array)),
             Put("freq_array", ArrayDs(arr.freq_array)),
             Put("flex_spw_id_array", ArrayDs(arr.spw_id_array)),
             Put("flex_spw", ScalarDs(TRUE)),
             Put("polarization_array", ArrayDs(arr.polarization_array)),
             Put("integration_time", ArrayDs(arr.integration_time)),
             Put("channel_width", ArrayDs(arr.channel_width)),
             Put("antenna_numbers", ArrayDs(arr.antenna_numbers)) >>
       \o (IF \E i \in 1..Len(arr.antenna_names.data) : Len(arr.antenna_names.data[i]) > 50
           THEN <<Op("antenna_names", Panic(Msg("Unable to write", "antenna_names")))>>
           ELSE <<Put("antenna_names", ArrayDs(arr.antenna_names))>>)
       \o << Put("antenna_positions", ArrayDs(arr.antenna_positions)) >>
       \o PutOptArray("eq_coeffs", arr.eq_coeffs)
       \o PutOptArray("antenna_diameters", arr.antenna_diameters)
       \o catalog_ops(self)

\* every creation in /Data
data_ops(self) ==
    << IF IsSome(self.data_array)
       THEN Put("visdata",
                Dataset(Unwrap(self.data_array).shape,
                        [i \in 1..Len(Unwrap(self.data_array).data) |->
                           Complexh5_from(Unwrap(self.data_array).data[i])]))
       ELSE Op("visdata", Panic(Msg("called Option::unwrap() on a None value", "data_array"))),
       IF IsSome(self.flag_array)
       THEN Put("flags", ArrayDs(Unwrap(self.flag_array)))
       ELSE Op("flags", Panic(Msg("called Option::unwrap() on a None value", "flag_array"))),
       IF IsSome(self.nsample_array)
       THEN Put("nsamples", ArrayDs(Unwrap(self.nsample_array)))
       ELSE Op("nsamples", Panic(Msg("called Option::unwrap() on a None value", "nsample_array"))) >>

\* the file made of the members created in /Header and /Data
FileOf(header, data) ==
    [g \in {"Header", "Data"} |-> IF g = "Header" THEN header ELSE data]

\* the end of to_file once the file is created, from the creations in /Header
\* and in /Data: those in /Data run when all in /Header have succeeded
written(hdr, dat) ==
    IF ~IsOk(hdr.r)
    THEN [r |-> hdr.r, file |-> Some([g \in {"Header"} |-> hdr.members]),
          handle |-> "dropped"]
    ELSE IF ~IsOk(dat.r)
    THEN [r |-> dat.r, file |-> Some(FileOf(hdr.members, dat.members)),
          handle |-> "dropped"]
    ELSE [r |-> Ok(0), file |-> Some(FileOf(hdr.members, dat.members)),
          handle |-> "closed"]

\* a variant of to_file that creates the file before it looks at the cubes
to_file_create_first(self, old, overwrite) ==
    IF ~overwrite /\ IsSome(old)
    THEN [r |-> Err(Msg("unable to create file", "exists")),
          file |-> old, handle |-> "unopened"]
    ELSE IF ~writable(self)
    THEN [r |-> Err(Msg("Unable to write metadata only objects to UVH5 files.", "")),
          file |-> Some(EmptyFile), handle |-> "dropped"]
    ELSE written(RunOps(NoMembers, header_ops(self)), RunOps(NoMembers, data_ops(self)))

\* UVH5::to_file(self, fname, overwrite), on the file `old` at fname (None when
\* there is none).  Returns the result, the file then at fname, and what
\* became of the handle: "unopened", "closed" (h5file.close()) or "dropped".
to_file(self, old, overwrite) ==
    IF ~writable(self)
    THEN [r |-> Err(Msg("Unable to write metadata only objects to UVH5 files.", "")),
          file |-> old, handle |-> "unopened"]
    ELSE IF ~overwrite /\ IsSome(old)
    THEN [r |-> Err(Msg("unable to create file", "exists")),
          file |-> old, handle |-> "unopened"]
    ELSE written(RunOps(NoMembers, header_ops(self)), RunOps(NoMembers, data_ops(self)))

\* ------------------------------------------------------------------------
\* uvh5.rs: UVH5::from_file
\* ------------------------------------------------------------------------
\* the value of a step, or a placeholder where an earlier step has failed
\* (the call has then already returned and the value is never used)
ValOr(r, dflt) == IF IsOk(r) THEN r.val ELSE dflt

\* Option<FixedAscii>::unwrap_or(unknown) under the `?`
or_unknown(r) ==
    IF ~IsOk(r) THEN r
    ELSE Ok(IF IsSome(r.val) THEN Unwrap(r.val) ELSE S_unknown)

\* read_scalar::<FixedAscii<200>>(header, name)?.unwrap_or(unknown)
read_or_unknown(header, name) == or_unknown(read_scalar(header, name))

\* X::from_str(&text)? of a text already read
VisUnit_of(s) == IF IsOk(s) THEN VisUnit_from_str(s.val) ELSE s
Orientation_of(s) == IF IsOk(s) THEN Orientation_from_str(s.val) ELSE s
BltOrder_of(s) == IF IsOk(s) THEN BltOrder_from_str(s.val) ELSE s
EqConvention_of(s) == IF IsOk(s) THEN EqConvention_from_str(s.val) ELSE s
PhaseType_of(s) == IF IsOk(s) THEN PhaseType_from_str(s.val) ELSE s

\* vis_units read the way the other enum scalars are
read_vis_units_or_unknown(header) == VisUnit_of(read_or_unknown(header, "vis_units"))

\* vis_units: parsed when the link exists, Uncalib otherwise
read_vis_units(header) ==
    IF link_exists(header, "vis_units")
    THEN VisUnit_of(dataset_read_scalar(header, "vis_units"))
    ELSE Ok("Uncalib")

read_x_orientation(header) == Orientation_of(read_or_unknown(header, "x_orientation"))

read_blt_order(header) == BltOrder_of(read_or_unknown(header, "blt_order"))

read_eq_coeffs_convention(header) ==
    EqConvention_of(read_or_unknown(header, "eq_coeffs_convention"))

read_phase_type(header) == PhaseType_of(read_or_unknown(header, "phase_type"))

\* match read_scalar(..) { Ok(name) => name.unwrap_or(unknown).to_lowercase(),
\*                         Err(_) => "unknown" }
lower_or_unknown(r) ==
    IF IsOk(r)
    THEN to_lowercase(IF IsSome(r.val) THEN Unwrap(r.val) ELSE S_unknown)
    ELSE S_unknown

\* object_name: lowercased, "unknown" when absent or unreadable
read_object_name(header) == lower_or_unknown(read_scalar(header, "object_name"))

\* an optional array: Some(header.dataset(name)?.read::<T, IxN>()?) when the
\* link exists
read_opt_array(header, name, n) ==
    IF link_exists(header, name)
    THEN some_of(dataset_read(header, name, n))
    ELSE Ok(None)

\* Option<u32>::unwrap_or(1) under the `?`
or_one(r) == IF ~IsOk(r) THEN r ELSE Ok(IF IsSome(r.val) THEN Unwrap(r.val) ELSE 1)

\* Nphases: 1 when absent
read_nphases(header) == or_one(read_scalar(header, "Nphases"))

\* the number of distinct values of the baseline array
count_distinct(a) == Cardinality({ a.data[i] : i \in 1..Len(a.data) })

\* a variant of the freq_array normalisation that removes the trailing axis
squeeze_freq_trailing(d) ==
    IF ~IsOk(d) THEN d
    ELSE CASE Len(d.val.shape) = 1 -> Ok(NdArray(d.val.shape, d.val.data))
           [] Len(d.val.shape) = 2 -> remove_axis(NdArray(d.val.shape, d.val.data), 2)
           [] OTHER ->
                Err(Msg("Incompatible dimensions of freq array", Len(d.val.shape)))

\* the opened freq_array dataset: 1-D as stored, 2-D with the leading axis
\* removed
squeeze_freq(d) ==
    IF ~IsOk(d) THEN d
    ELSE CASE Len(d.val.shape) = 1 -> Ok(NdArray(d.val.shape, d.val.data))
           [] Len(d.val.shape) = 2 -> remove_axis(NdArray(d.val.shape, d.val.data), 1)
           [] OTHER ->
                Err(Msg("Incompatible dimensions of freq array", Len(d.val.shape)))

read_freq_array(header) == squeeze_freq(open_dataset(header, "freq_array"))

\* spw_id_array: flex_spw_id_array when stored, else nfreqs zeros
read_spw_id_array(header, nfreqs) ==
    IF link_exists(header, "flex_spw_id_array")
    THEN dataset_read(header, "flex_spw_id_array", 1)
    ELSE Ok(from_elem(<<nfreqs>>, 0))

\* the opened channel_width dataset: a scalar broadcast to nfreqs, or 1-D as
\* stored
broadcast_width(d, nfreqs) ==
    IF ~IsOk(d) THEN d
    ELSE CASE Len(d.val.shape) = 0 -> Ok(from_elem(<<nfreqs>>, d.val.data[1]))
           [] Len(d.val.shape) = 1 -> Ok(NdArray(d.val.shape, d.val.data))
           [] OTHER ->
                Err(Msg("Incompatible dimensions of Channel width", Len(d.val.shape)))

read_channel_width(header, nfreqs) ==
    broadcast_width(open_dataset(header, "channel_width"), nfreqs)

\* serde_json::from_str of a member's text already read
json_of(s) == IF IsOk(s) THEN json_from_str(s.val) ELSE s

\* the members of the catalog group, decoded in the order of their names;
\* the first unreadable or undecodable member ends the call
RECURSIVE decode_members(_, _, _)
RECURSIVE decode_next(_, _, _, _)
\* a variant that leaves a failed member out and goes on
decode_next_skipping(group, names, cat, entry) ==
    decode_members(group, Tail(names),
                   IF IsOk(entry) THEN Catalog_insert(cat, Head(names), entry.val) ELSE cat)

decode_next(group, names, cat, entry) ==
    IF ~IsOk(entry) THEN entry
    ELSE decode_members(group, Tail(names), Catalog_insert(cat, Head(names), entry.val))

decode_members(group, names, cat) ==
    IF names = <<>> THEN Ok(cat)
    ELSE decode_next(group, names, cat, json_of(dataset_read_scalar(group, Head(names))))

\* header.group("phase_center_catalog")? and its members
decode_group(node) ==
    IF node.kind # "group" THEN Err(Msg("not a group", "phase_center_catalog"))
    ELSE decode_members(node.data, Catalog_keys(node.data), Catalog_new)

\* (cat, id_array) of two steps that both succeeded
with_ids(cat, ids) ==
    IF ~IsOk(cat) THEN cat
    ELSE IF ~IsOk(ids) THEN ids
    ELSE Ok([cat |-> cat.val, ids |-> ids.val])

\* the catalog and id array of a file that stores the catalog group
stored_catalog(header) ==
    with_ids(decode_group(header["phase_center_catalog"]),
             dataset_read(header, "phase_center_id_array", 1))

\* cat_frame of the legacy Sidereal entry
legacy_frame(header) == lower_or_unknown(read_scalar(header, "phase_center_frame"))

\* a variant of the legacy Sidereal entry with the two coordinates exchanged
legacy_sidereal_swapped(object_name, frame, ra, dec, epoch) ==
    IF ~IsOk(ra) THEN ra
    ELSE IF ~IsOk(dec) THEN dec
    ELSE IF ~IsOk(epoch) THEN epoch
    ELSE Ok(Catalog_insert(Catalog_new, object_name,
              SiderealVal(0, S_sidereal, dec.val, ra.val, frame, epoch.val,
                          None, None, None, None, Some(S_UVData))))

\* the Sidereal entry of a legacy phased file, keyed by object_name
legacy_sidereal(object_name, frame, ra, dec, epoch) ==
    IF ~IsOk(ra) THEN ra
    ELSE IF ~IsOk(dec) THEN dec
    ELSE IF ~IsOk(epoch) THEN epoch
    ELSE Ok(Catalog_insert(Catalog_new, object_name,
              SiderealVal(0, S_sidereal, ra.val, dec.val, frame, epoch.val,
                          None, None, None, None, Some(S_UVData))))

\* the catalog of a file without the catalog group, from phase_type
legacy_catalog(header, phase_type, object_name) ==
    CASE phase_type = "Drift" ->
           Ok(Catalog_insert(Catalog_new, S_zenith, UnphasedVal(0, S_unphased)))
      [] phase_type = "Phased" ->
           legacy_sidereal(object_name, legacy_frame(header),
                           read_required(header, "phase_center_ra"),
                           read_required(header, "phase_center_dec"),
                           read_required(header, "phase_center_epoch"))
      [] OTHER -> Ok(Catalog_new)

\* (phase_center_catalog, phase_center_id_array)
read_catalog(header, phase_type, object_name, nblts) ==
    IF link_exists(header, "phase_center_catalog")
    THEN stored_catalog(header)
    ELSE with_ids(legacy_catalog(header, phase_type, object_name),
                  Ok(from_elem(<<nblts>>, 0)))

\* a variant of the cube read that removes the leading axis of a 4-D cube
read_cube_leading(d, name, nd) ==
    IF Len(d.shape) # nd THEN Err(Msg("ndim mismatch", name))
    ELSE IF nd = 4 THEN remove_axis(NdArray(d.shape, d.data), 1)
    ELSE Ok(NdArray(d.shape, d.data))

\* an opened cube read as nd-dimensional; a 4-D cube then has its second
\* axis removed: dset.read::<T, Ix4>()?.remove_axis(Axis(1))
read_cube(d, name, nd) ==
    IF Len(d.shape) # nd THEN Err(Msg("ndim mismatch", name))
    ELSE IF nd = 4 THEN remove_axis(NdArray(d.shape, d.data), 2)
    ELSE Ok(NdArray(d.shape, d.data))

\* .mapv(|x| x.into()) from Complexh5
to_complex(a) == NdArray(a.shape, [i \in 1..Len(a.data) |-> Complex_from(a.data[i])])

\* (Some(data), Some(samps), Some(flags)) of three reads that succeeded
three_cubes(data, flags, samps) ==
    IF ~IsOk(data) THEN data
    ELSE IF ~IsOk(flags) THEN flags
    ELSE IF ~IsOk(samps) THEN samps
    ELSE Ok([data |-> Some(to_complex(data.val)),
             samps |-> Some(samps.val), flags |-> Some(flags.val)])

\* match visdata.ndim() { 3 => .., 4 => .., ndim => Err(..) } on the three
\* opened datasets
squeeze_cubes(v, f, n) ==
    IF ~IsOk(v) THEN v
    ELSE IF ~IsOk(f) THEN f
    ELSE IF ~IsOk(n) THEN n
    ELSE IF Len(v.val.shape) \notin {3, 4}
    THEN Err(Msg("Incompatible dimensions of data array", Len(v.val.shape)))
    ELSE three_cubes(read_cube(v.val, "visdata", Len(v.val.shape)),
                     read_cube(f.val, "flags", Len(v.val.shape)),
                     read_cube(n.val, "nsamples", Len(v.val.shape)))

\* the three cubes of /Data: 3-D as stored, 4-D with the second axis removed
read_cubes(file) ==
    IF "Data" \notin DOMAIN file THEN Err(Msg("unable to open group", "Data"))
    ELSE squeeze_cubes(open_dataset(file["Data"], "visdata"),
                       open_dataset(file["Data"], "flags"),
                       open_dataset(file["Data"], "nsamples"))

\* UVH5::from_file(fname, read_data) on the file `old` at fname (None when
\* there is none); checks is the build's overflow-checks setting.  Returns
\* the result and what became of the handle.
from_file(old, read_data, checks) ==
    LET file   == IF IsSome(old) THEN Unwrap(old) ELSE EmptyFile
        header == IF "Header" \in DOMAIN file THEN file["Header"] ELSE NoMembers
        r_open == IF IsSome(old) THEN Ok(0) ELSE Err(Msg("unable to open file", ""))
        r_hdr  == IF "Header" \in DOMAIN file THEN Ok(0)
                  ELSE Err(Msg("unable to open group", "Header"))
        lat    == dataset_read_scalar(header, "latitude")
        lon    == dataset_read_scalar(header, "longitude")
        alt    == dataset_read_scalar(header, "altitude")
        instrument     == dataset_read_scalar(header, "instrument")
        telescope_name == dataset_read_scalar(header, "telescope_name")
        history        == dataset_read_scalar(header, "history")
        vis_units      == read_vis_units(header)
        dut1           == read_scalar(header, "dut1")
        earth_omega    == read_scalar(header, "earth_omega")
        gst0           == read_scalar(header, "gst0")
        rdate          == read_scalar(header, "rdate")
        timesys        == read_scalar(header, "timesys")
        x_orientation  == read_x_orientation(header)
        blt_order      == read_blt_order(header)
        antenna_diameters      == read_opt_array(header, "antenna_diameters", 1)
        uvplane_reference_time == read_scalar(header, "uvplane_reference_time")
        eq_coeffs              == read_opt_array(header, "eq_coeffs", 2)
        eq_coeffs_convention   == read_eq_coeffs_convention(header)
        phase_type      == read_phase_type(header)
        object_name     == read_object_name(header)
        nants_data      == read_required(header, "Nants_data")
        nants_telescope == read_required(header, "Nants_telescope")
        nblts   == read_required(header, "Nblts")
        nspws   == read_required(header, "Nspws")
        npols   == read_required(header, "Npols")
        ntimes  == read_required(header, "Ntimes")
        nfreqs  == read_required(header, "Nfreqs")
        nphases == read_nphases(header)
        ant_1_array == dataset_read(header, "ant_1_array", 1)
        ant_2_array == dataset_read(header, "ant_2_array", 1)
        baseline_array ==
            IF IsOk(ant_1_array) /\ IsOk(ant_2_array)
            THEN antnums_to_baseline(ant_1_array.val, ant_2_array.val, FALSE, checks)
            ELSE Ok(Array1(<<>>))
        spw_array     == dataset_read(header, "spw_array", 1)
        uvw_array     == dataset_read(header, "uvw_array", 2)
        time_array    == dataset_read(header, "time_array", 1)
        lst_array     == dataset_read(header, "lst_array", 1)
        antenna_names == dataset_read(header, "antenna_names", 1)
        freq_array    == read_freq_array(header)
        spw_id_array  == read_spw_id_array(header, ValOr(nfreqs, 0))
        polarization_array == dataset_read(header, "polarization_array", 1)
        integration_time   == dataset_read(header, "integration_time", 1)
        channel_width      == read_channel_width(header, ValOr(nfreqs, 0))
        antenna_numbers    == dataset_read(header, "antenna_numbers", 1)
        antenna_positions  == dataset_read(header, "antenna_positions", 2)
        catalog == read_catalog(header, ValOr(phase_type, "Unknown"), object_name,
                                ValOr(nblts, 0))
        cubes   == IF read_data THEN read_cubes(file)
                   ELSE Ok([data |-> None, samps |-> None, flags |-> None])
        meta ==
            [nbls |-> count_distinct(baseline_array.val), nblts |-> nblts.val,
             npols |-> npols.val, nspws |-> nspws.val, ntimes |-> ntimes.val,
             nfreqs |-> nfreqs.val, nphases |-> nphases.val,
             nants_data |-> nants_data.val, nants_telescope |-> nants_telescope.val,
             blt_order |-> blt_order.val, x_orientation |-> x_orientation.val,
             phase_type |-> phase_type.val, vis_units |-> vis_units.val,
             instrument |-> instrument.val, telescope_name |-> telescope_name.val,
             telescope_location |-> xyz_from_latlonalt(lat.val, lon.val, alt.val),
             object_name |-> object_name,
             eq_coeffs_convention |-> eq_coeffs_convention.val,
             dut1 |-> dut1.val, gst0 |-> gst0.val, rdate |-> rdate.val,
             earth_omega |-> earth_omega.val, timesys |-> timesys.val,
             uvplane_reference_time |-> uvplane_reference_time.val,
             history |-> stamp(history.val)]
        meta_arrays ==
            [spw_array |-> spw_array.val, uvw_array |-> uvw_array.val,
             time_array |-> time_array.val, lst_array |-> lst_array.val,
             ant_1_array |-> ant_1_array.val, ant_2_array |-> ant_2_array.val,
             baseline_array |-> baseline_array.val, freq_array |-> freq_array.val,
             spw_id_array |-> spw_id_array.val,
             polarization_array |-> polarization_array.val,
             integration_time |-> integration_time.val,
             channel_width |-> channel_width.val,
             antenna_numbers |-> antenna_numbers.val,
             antenna_names |-> antenna_names.val,
             antenna_positions |-> antenna_positions.val,
             eq_coeffs |-> eq_coeffs.val,
             antenna_diameters |-> antenna_diameters.val,
             phase_center_catalog |-> catalog.val.cat,
             phase_center_id_array |-> catalog.val.ids]
    IN IF ~IsOk(r_open) THEN [r |-> r_open, handle |-> "unopened"]
       ELSE IF ~IsOk(r_hdr) THEN [r |-> r_hdr, handle |-> "dropped"]
       ELSE IF ~IsOk(lat) THEN [r |-> lat, handle |-> "dropped"]
       ELSE IF ~IsOk(lon) THEN [r |-> lon, handle |-> "dropped"]
       ELSE IF ~IsOk(alt) THEN [r |-> alt, handle |-> "dropped"]
       ELSE IF ~IsOk(instrument) THEN [r |-> instrument, handle |-> "dropped"]
       ELSE IF ~IsOk(telescope_name) THEN [r |-> telescope_name, handle |-> "dropped"]
       ELSE IF ~IsOk(history) THEN [r |-> history, handle |-> "dropped"]
       ELSE IF ~IsOk(vis_units) THEN [r |-> vis_units, handle |-> "dropped"]
       ELSE IF ~IsOk(dut1) THEN [r |-> dut1, handle |-> "dropped"]
       ELSE IF ~IsOk(earth_omega) THEN [r |-> earth_omega, handle |-> "dropped"]
       ELSE IF ~IsOk(gst0) THEN [r |-> gst0, handle |-> "dropped"]
       ELSE IF ~IsOk(rdate) THEN [r |-> rdate, handle |-> "dropped"]
       ELSE IF ~IsOk(timesys) THEN [r |-> timesys, handle |-> "dropped"]
       ELSE IF ~IsOk(x_orientation) THEN [r |-> x_orientation, handle |-> "dropped"]
       ELSE IF ~IsOk(blt_order) THEN [r |-> blt_order, handle |-> "dropped"]
       ELSE IF ~IsOk(antenna_diameters) THEN [r |-> antenna_diameters, handle |-> "dropped"]
       ELSE IF ~IsOk(uvplane_reference_time) THEN [r |-> uvplane_reference_time, handle |-> "dropped"]
       ELSE IF ~IsOk(eq_coeffs) THEN [r |-> eq_coeffs, handle |-> "dropped"]
       ELSE IF ~IsOk(eq_coeffs_convention) THEN [r |-> eq_coeffs_convention, handle |-> "dropped"]
       ELSE IF ~IsOk(phase_type) THEN [r |-> phase_type, handle |-> "dropped"]
       ELSE IF ~IsOk(nants_data) THEN [r |-> nants_data, handle |-> "dropped"]
       ELSE IF ~IsOk(nants_telescope) THEN [r |-> nants_telescope, handle |-> "dropped"]
       ELSE IF ~IsOk(nblts) THEN [r |-> nblts, handle |-> "dropped"]
       ELSE IF ~IsOk(nspws) THEN [r |-> nspws, handle |-> "dropped"]
       ELSE IF ~IsOk(npols) THEN [r |-> npols, handle |-> "dropped"]
       ELSE IF ~IsOk(ntimes) THEN [r |-> ntimes, handle |-> "dropped"]
       ELSE IF ~IsOk(nfreqs) THEN [r |-> nfreqs, handle |-> "dropped"]
       ELSE IF ~IsOk(nphases) THEN [r |-> nphases, handle |-> "dropped"]
       ELSE IF ~IsOk(ant_1_array) THEN [r |-> ant_1_array, handle |-> "dropped"]
       ELSE IF ~IsOk(ant_2_array) THEN [r |-> ant_2_array, handle |-> "dropped"]
       ELSE IF ~IsOk(baseline_array) THEN [r |-> baseline_array, handle |-> "dropped"]
       ELSE IF ~IsOk(spw_array) THEN [r |-> spw_array, handle |-> "dropped"]
       ELSE IF ~IsOk(uvw_array) THEN [r |-> uvw_array, handle |-> "dropped"]
       ELSE IF ~IsOk(time_array) THEN [r |-> time_array, handle |-> "dropped"]
       ELSE IF ~IsOk(lst_array) THEN [r |-> lst_array, handle |-> "dropped"]
       ELSE IF ~IsOk(antenna_names) THEN [r |-> antenna_names, handle |-> "dropped"]
       ELSE IF ~IsOk(freq_array) THEN [r |-> freq_array, handle |-> "dropped"]
       ELSE IF ~IsOk(spw_id_array) THEN [r |-> spw_id_array, handle |-> "dropped"]
       ELSE IF ~IsOk(polarization_array) THEN [r |-> polarization_array, handle |-> "dropped"]
       ELSE IF ~IsOk(integration_time) THEN [r |-> integration_time, handle |-> "dropped"]
       ELSE IF ~IsOk(channel_width) THEN [r |-> channel_width, handle |-> "dropped"]
       ELSE IF ~IsOk(antenna_numbers) THEN [r |-> antenna_numbers, handle |-> "dropped"]
       ELSE IF ~IsOk(antenna_positions) THEN [r |-> antenna_positions, handle |-> "dropped"]
       ELSE IF ~IsOk(catalog) THEN [r |-> catalog, handle |-> "dropped"]
       ELSE IF ~IsOk(cubes) THEN [r |-> cubes, handle |-> "dropped"]
       ELSE [r |-> Ok(UVData(meta, meta_arrays, cubes.val.data, cubes.val.samps,
                             cubes.val.flags)),
             handle |-> "closed"]

\* ------------------------------------------------------------------------
\* lib.rs: read_uvh5 / write_uvh5
\* ------------------------------------------------------------------------
\* UVData::read_uvh5(path, read_data): UVH5::from_file(..)?.into()
read_uvh5(old, read_data, checks) == from_file(old, read_data, checks)

\* UVData::write_uvh5(self, path, overwrite): UVH5::from(self).to_file(..)
write_uvh5(self, old, overwrite) == to_file(self, old, overwrite)

\* ------------------------------------------------------------------------
\* The objects a caller builds (every field of UVData is public)
\* ------------------------------------------------------------------------
Chars(n) == SubSeq(<<"s", "r", "c", "x">>, 1, n)

GoodMeta ==
    [UVMeta_new EXCEPT
       !.nbls = 2, !.nblts = 2, !.ntimes = 1, !.npols = 1, !.nfreqs = 2,
       !.nspws = 1, !.nants_data = 3, !.nants_telescope = 3,
       !.blt_order = BltOrder("Time", "Baseline"), !.x_orientation = "East",
       !.eq_coeffs_convention = "Divide", !.instrument = <<"m", "w", "a">>,
       !.telescope_name = <<"m", "w", "a">>,
       !.telescope_location = <<-256212343, 509421540, -284872859>>,
       !.object_name = Chars(3), !.dut1 = Some(1), !.rdate = Some(<<"d">>),
       !.history = <<"h">>]

GoodArrays ==
    [spw_array |-> Array1(<<0>>),
     uvw_array |-> NdArray(<<2, 3>>, <<1, 2, 3, 4, 5, 6>>),
     time_array |-> Array1(<<10, 10>>),
     lst_array |-> Array1(<<7, 7>>),
     ant_1_array |-> Array1(<<0, 0>>),
     ant_2_array |-> Array1(<<1, 2>>),
     baseline_array |-> Array1(<<67586, 67587>>),
     freq_array |-> Array1(<<100, 101>>),
     spw_id_array |-> Array1(<<0, 0>>),
     polarization_array |-> Array1(<<-5>>),
     integration_time |-> Array1(<<2, 2>>),
     channel_width |-> Array1(<<4, 4>>),
     antenna_numbers |-> Array1(<<0, 1, 2>>),
     antenna_names |-> Array1(<<<<"a">>, <<"b">>, <<"c">>>>),
     antenna_positions |-> from_elem(<<3, 3>>, 0),
     eq_coeffs |-> None,
     antenna_diameters |-> Some(Array1(<<14, 14, 14>>)),
     phase_center_catalog |->
         Catalog_insert(Catalog_new, S_zenith, UnphasedVal(0, S_unphased)),
     phase_center_id_array |-> Array1(<<0, 0>>)]

GoodObj ==
    UVData(GoodMeta, GoodArrays,
           Some(NdArray(<<2, 1, 1>>, <<Complex(1, 2), Complex(3, 4)>>)),
           Some(NdArray(<<2, 1, 1>>, <<1, 1>>)),
           Some(NdArray(<<2, 1, 1>>, <<FALSE, TRUE>>)))

WithMeta(d, meta) == [d EXCEPT !.meta = meta]
WithCatalog(d, nphases, phase_type, cat) ==
    [d EXCEPT !.meta.nphases = nphases, !.meta.phase_type = phase_type,
              !.meta_arrays.phase_center_catalog = cat]

\* catalog entries: a Sidereal source at (lon, lat) and an Ephem track
Sidereal(lon, lat) ==
    SiderealVal(0, S_sidereal, lon, lat, <<"i", "c", "r", "s">>, 2000,
                None, None, None, None, Some(S_UVData))
Ephem(id) ==
    EphemVal(id, S_ephem, Array1(<<1, 2>>), Array1(<<3, 4>>), <<"i", "c", "r", "s">>,
             2000, None, None, None)

InputObjects ==
    << GoodObj,
       WithMeta(GoodObj, [GoodMeta EXCEPT !.vis_units = "Jansky"]),
       WithMeta(GoodObj, [GoodMeta EXCEPT !.vis_units = "Kelvinstr"]),
       WithMeta(GoodObj, [GoodMeta EXCEPT !.x_orientation = "Unknown"]),
       WithMeta(GoodObj, [GoodMeta EXCEPT !.object_name = <<"S", "r", "c">>]),
       WithMeta(GoodObj, [GoodMeta EXCEPT !.blt_order = BltOrder("Bda", "Bda")]),
       WithMeta(GoodObj, [GoodMeta EXCEPT !.blt_order = BltOrder("Unknown", "Unknown"),
                                         !.eq_coeffs_convention = "Unknown"]),
       WithMeta(GoodObj, [GoodMeta EXCEPT !.telescope_location = <<0, 0, 0>>,
                                         !.history = print_version_str]),
       WithMeta(GoodObj, [GoodMeta EXCEPT !.nbls = 1]),
       [GoodObj EXCEPT !.meta_arrays.baseline_array = Array1(<<0, 0>>)],
       [GoodObj EXCEPT !.meta_arrays.eq_coeffs = Some(from_elem(<<3, 2>>, 1))],
       WithCatalog(GoodObj, 1, "Phased", GoodArrays.phase_center_catalog),
       WithCatalog(GoodObj, 1, "Phased",
                   Catalog_insert(Catalog_new, Chars(3), Sidereal(10, 20))),
       WithCatalog(GoodObj, 1, "Phased",
                   Catalog_insert(Catalog_new, Chars(3), Sidereal(15, 15))),
       WithCatalog(GoodObj, 1, "Phased",
                   Catalog_insert(Catalog_new, Chars(3), Ephem(0))),
       WithCatalog(GoodObj, 1, "Drift", Catalog_new),
       WithCatalog(GoodObj, 0, "Drift", GoodArrays.phase_center_catalog),
       WithCatalog(GoodObj, 2, "Multi",
                   Catalog_insert(Catalog_insert(Catalog_new, Chars(3), Sidereal(10, 20)),
                                  Chars(4), UnphasedVal(1, S_unphased))),
       WithCatalog(GoodObj, 2, "Multi",
                   Catalog_insert(Catalog_insert(Catalog_new, Chars(3), Ephem(0)),
                                  Chars(4), UnphasedVal(1, S_unphased))),
       [GoodObj EXCEPT !.data_array = None, !.nsample_array = None, !.flag_array = None],
       [GoodObj EXCEPT !.flag_array = None],
       [GoodObj EXCEPT !.nsample_array = None],
       WithCatalog(GoodObj, 1, "Phased",
                   Catalog_insert(Catalog_insert(Catalog_new, Chars(3), Sidereal(15, 15)),
                                  Chars(4), UnphasedVal(1, S_unphased))),
       WithMeta(GoodObj, [GoodMeta EXCEPT
                            !.history = <<"h", "\n">> \o Squeezed(print_version_str)]) >>

\* the metas UVData::new is called with
NewMetas ==
    { [UVMeta_new EXCEPT !.nblts = b, !.ntimes = 2, !.npols = 1] : b \in 1..MaxN }

\* ------------------------------------------------------------------------
\* The files a caller reads
\* ------------------------------------------------------------------------
\* the file the writer makes of GoodObj
GoodFile == Unwrap(to_file(GoodObj, None, TRUE).file)

HeaderWith(f, name, node) ==
    [g \in DOMAIN f |-> IF g = "Header" THEN With(f[g], name, node) ELSE f[g]]
HeaderWithout(f, name) ==
    [g \in DOMAIN f |-> IF g = "Header" THEN Without(f[g], name) ELSE f[g]]
DataWith(f, name, node) ==
    [g \in DOMAIN f |-> IF g = "Data" THEN With(f[g], name, node) ELSE f[g]]

RequiredScalars ==
    << "Nblts", "Nspws", "Npols", "Ntimes", "Nfreqs", "Nants_data", "Nants_telescope",
       "instrument", "telescope_name", "latitude", "longitude", "altitude" >>

\* the cube `name` of f with the axes `shape`
Reshaped(f, name, shape) == DataWith(f, name, Dataset(shape, f["Data"][name].data))

\* f with a spectral-window axis of length 1 in its three cubes
File4D(f) ==
    Reshaped(Reshaped(Reshaped(f, "visdata", <<2, 1, 1, 1>>),
                      "flags", <<2, 1, 1, 1>>), "nsamples", <<2, 1, 1, 1>>)

\* f as a legacy file of a phased observation
PhasedFile(f) ==
    HeaderWith(HeaderWith(HeaderWith(HeaderWith(HeaderWith(HeaderWith(f,
        "phase_type", ScalarDs(<<"P", "h", "a", "s", "e", "d">>)),
        "phase_center_ra", ScalarDs(10)), "phase_center_dec", ScalarDs(20)),
        "phase_center_epoch", ScalarDs(2000)),
        "phase_center_frame", ScalarDs(<<"I", "C", "R", "S">>)),
        "object_name", ScalarDs(<<"S", "r", "c">>))

\* f with the catalog group
CatalogFile(f, members) ==
    HeaderWith(HeaderWith(HeaderWith(HeaderWith(f,
        "phase_type", ScalarDs(S_multi)), "Nphases", ScalarDs(2)),
        "phase_center_catalog", GroupNode(members)),
        "phase_center_id_array", ArrayDs(Array1(<<0, 1>>)))

\* f without one of the required scalars, for each of them
FilesWithout(f) ==
    [i \in 1..Len(RequiredScalars) |-> HeaderWithout(f, RequiredScalars[i])]

\* f with its enum scalars in other spellings, or without them
EnumFiles(f) ==
    << HeaderWith(f, "vis_units", ScalarDs(<<"J", "y">>)),
       HeaderWith(f, "vis_units", ScalarDs(<<"K", " ", "s", "t", "r">>)),
       HeaderWith(f, "vis_units",
                  ScalarDs(<<" ", "U", "N", "C", "A", "L", "I", "B", "\n">>)),
       HeaderWith(f, "vis_units", ScalarDs(<<"m", "K">>)),
       HeaderWithout(f, "vis_units"),
       HeaderWithout(f, "x_orientation"),
       HeaderWithout(f, "phase_type"),
       HeaderWithout(f, "object_name"),
       HeaderWithout(f, "flex_spw_id_array"),
       HeaderWithout(f, "blt_order"),
       HeaderWithout(f, "eq_coeffs_convention"),
       HeaderWith(f, "x_orientation", ScalarDs(<<"u", "p">>)),
       HeaderWith(f, "x_orientation", ScalarDs(<<" ", "N", "o", "r", "t", "h">>)),
       HeaderWith(f, "blt_order", ScalarDs(<<"t", "i", "m", "e", ",", " ", "t", "i", "m", "e">>)),
       HeaderWith(f, "blt_order", ScalarDs(<<"B", "D", "A", ",", " ">>)),
       HeaderWith(f, "eq_coeffs_convention", ScalarDs(<<"m", "u", "l", "t">>)),
       HeaderWith(f, "phase_type", ScalarDs(<<"d", "r", "i", "f", "t", "s">>)) >>

\* f with its arrays in the legacy shapes, and in shapes no reader accepts
ShapeFiles(f, f4) ==
    << HeaderWith(f, "freq_array", Dataset(<<1, 2>>, <<100, 101>>)),
       HeaderWith(f, "freq_array", Dataset(<<1, 1, 2>>, <<100, 101>>)),
       HeaderWith(f, "freq_array", Dataset(<<0, 2>>, <<>>)),
       HeaderWith(f, "channel_width", ScalarDs(4)),
       HeaderWith(f, "channel_width", Dataset(<<1, 2>>, <<4, 4>>)),
       HeaderWith(HeaderWith(f, "freq_array", Dataset(<<1, 2>>, <<100, 101>>)),
                  "channel_width", ScalarDs(4)),
       f4,
       DataWith(f4, "flags", f["Data"]["flags"]),
       Reshaped(f, "visdata", <<2, 1>>),
       Reshaped(f, "visdata", <<2, 1, 1, 1, 1>>),
       [g \in {"Header"} |-> f[g]] >>

\* f with the phase centers in the legacy scalars or in the catalog group,
\* with stale baselines, with antenna numbers that do not pack, and with a
\* count that is not the length of the arrays
PhaseFiles(f, phased) ==
    << phased,
       HeaderWithout(phased, "phase_center_ra"),
       HeaderWithout(phased, "phase_center_frame"),
       HeaderWith(f, "phase_type", ScalarDs(S_multi)),
       CatalogFile(f, catalog_members(
           Catalog_insert(Catalog_insert(Catalog_new, Chars(3), Sidereal(10, 20)),
                          Chars(4), Ephem(1)), {Chars(3), Chars(4)})),
       CatalogFile(f, [n \in {Chars(3)} |-> ScalarDs(JInvalid)]),
       CatalogFile(f, [n \in {Chars(3), Chars(4)} |->
                          IF n = Chars(3) THEN ScalarDs(json_to_string(Sidereal(10, 20)))
                          ELSE ScalarDs(JInvalid)]),
       CatalogFile(f, [n \in {Chars(3)} |-> ScalarDs(JObject([cat_id |-> JNum(0)]))]),
       HeaderWith(HeaderWith(f, "baseline_array", ArrayDs(Array1(<<9, 9>>))),
                  "Nbls", ScalarDs(7)),
       HeaderWith(f, "ant_1_array", ArrayDs(Array1(<<2097151, 0>>))),
       HeaderWith(f, "ant_2_array", ArrayDs(Array1(<<1>>))),
       HeaderWith(f, "Nblts", ScalarDs(1)) >>

FilesFrom(f) ==
    <<f>> \o FilesWithout(f) \o EnumFiles(f) \o ShapeFiles(f, File4D(f))
        \o PhaseFiles(f, PhasedFile(f))

ExternalFiles == FilesFrom(GoodFile)

\* ------------------------------------------------------------------------
\* The state machine: a caller holding at most one object, which it gets
\* (constructs or reads) when it holds none and gives up when it writes it;
\* an input path "a" it only reads and an output path "b" it writes and reads
\* ------------------------------------------------------------------------
Paths == {"a", "b"}
OutPaths == {"b"}

NoMsg == Msg("", "")

\* the outcome of the last call
Outcome(op, tag, msg, path, read_data, overwrite, handle, from, cubes) ==
    [op |-> op, tag |-> tag, msg |-> msg, path |-> path, read_data |-> read_data,
     overwrite |-> overwrite, handle |-> handle, from |-> from, cubes |-> cubes,
     checks |-> FALSE]

\* the outcome of a read in a build with the overflow checks on or off
ReadOutcome(r, p, read_data, checks) ==
    [Outcome("read", r.r.tag, IF IsOk(r.r) THEN NoMsg ELSE r.r.val, p, read_data,
             FALSE, r.handle, "none", FALSE) EXCEPT !.checks = checks]

NoOutcome == Outcome("none", "Ok", NoMsg, "a", FALSE, FALSE, "unopened", "none", FALSE)

\* all three cubes of d are set
CubesSet(d) == IsSome(d.data_array) /\ IsSome(d.nsample_array) /\ IsSome(d.flag_array)

Init ==
    /\ src = [p \in Paths |-> None]
    /\ res = NoOutcome
    /\ \/ \E i \in 1..Len(InputObjects) :
            /\ obj = Some(InputObjects[i])
            /\ origin = "input"
            /\ fs = [p \in Paths |-> None]
       \/ \E i \in 1..Len(ExternalFiles) :
            /\ obj = None
            /\ origin = "none"
            /\ fs = [p \in Paths |-> IF p = "a" THEN Some(ExternalFiles[i]) ELSE None]
       \/ /\ obj = None
          /\ origin = "none"
          /\ fs = [p \in Paths |-> None]

\* UVData::new(m, metadata_only)
New(m, metadata_only) ==
    /\ IsNone(obj)
    /\ obj' = Some(UVData_new(m, metadata_only))
    /\ origin' = "new"
    /\ res' = Outcome("new", "Ok", NoMsg, "a", FALSE, FALSE, "unopened", "none",
                      ~metadata_only)
    /\ UNCHANGED <<fs, src>>

\* UVData::from(m)
FromMeta(m) ==
    /\ IsNone(obj)
    /\ obj' = Some(UVData_from_meta(m))
    /\ origin' = "new"
    /\ res' = Outcome("from", "Ok", NoMsg, "a", FALSE, FALSE, "unopened", "none", FALSE)
    /\ UNCHANGED <<fs, src>>

\* UVData::from((m, metadata_only))
FromPair(m, metadata_only) ==
    /\ IsNone(obj)
    /\ obj' = Some(UVData_from_pair(m, metadata_only))
    /\ origin' = "new"
    /\ res' = Outcome("from_pair", "Ok", NoMsg, "a", FALSE, FALSE, "unopened", "none",
                      ~metadata_only)
    /\ UNCHANGED <<fs, src>>

\* obj.write_uvh5(p, overwrite): the object is moved into the call
Write(p, overwrite) ==
    /\ IsSome(obj)
    /\ \E w \in {write_uvh5(Unwrap(obj), fs[p], overwrite)} :
          /\ fs' = [fs EXCEPT ![p] = w.file]
          /\ src' = [src EXCEPT ![p] =
                       IF IsOk(w.r) THEN Some([d |-> Unwrap(obj), origin |-> origin])
                       ELSE IF w.handle = "unopened" THEN src[p]
                       ELSE None]
          /\ res' = Outcome("write", w.r.tag, IF IsOk(w.r) THEN NoMsg ELSE w.r.val, p,
                            FALSE, overwrite, w.handle, origin, CubesSet(Unwrap(obj)))
    /\ obj' = None
    /\ origin' = "none"

\* UVData::read_uvh5(p, read_data), in a build with or without overflow checks
Read(p, read_data) ==
    /\ IsNone(obj)
    /\ \E checks \in BOOLEAN :
         \E r \in {read_uvh5(fs[p], read_data, checks)} :
            /\ obj' = IF IsOk(r.r) THEN Some(r.r.val) ELSE None
            /\ origin' = IF IsOk(r.r) THEN "read" ELSE "none"
            /\ res' = ReadOutcome(r, p, read_data, checks)
    /\ UNCHANGED <<fs, src>>

Next ==
    \/ \E m \in NewMetas, metadata_only \in BOOLEAN : New(m, metadata_only)
    \/ \E m \in NewMetas : FromMeta(m)
    \/ \E m \in NewMetas, metadata_only \in BOOLEAN : FromPair(m, metadata_only)
    \/ \E p \in OutPaths, overwrite \in BOOLEAN : Write(p, overwrite)
    \/ \E p \in Paths, read_data \in BOOLEAN : Read(p, read_data)

Spec == Init /\ [][Next]_vars

\* ------------------------------------------------------------------------
\* The functions of the library called on their own.  A call starts with its
\* arguments chosen; each step applies one function to them, and the
\* functions that are each other's converse are applied one after the other.
\* ------------------------------------------------------------------------
Enums == {"VisUnit", "PhaseType", "EqConvention", "Orientation", "BltOrder"}

\* the values of an enumeration; of BltOrder, those its parser can return
ValuesOf(enum) ==
    CASE enum = "VisUnit" -> VisUnits
      [] enum = "PhaseType" -> PhaseTypes
      [] enum = "EqConvention" -> EqConventions
      [] enum = "Orientation" -> Orientations
      [] enum = "BltOrder" ->
           { BltOrder(p[1], p[2]) : p \in BltPairs }
              \cup {BltOrder("Bda", "Bda"), BltOrder("Unknown", "Unknown")}

\* v.to_string()
to_string(enum, v) ==
    CASE enum = "VisUnit" -> VisUnit_to_string(v)
      [] enum = "PhaseType" -> PhaseType_to_string(v)
      [] enum = "EqConvention" -> EqConvention_to_string(v)
      [] enum = "Orientation" -> Orientation_to_string(v)
      [] enum = "BltOrder" -> BltOrder_to_string(v)

\* the enumeration's from_str(input)
from_str(enum, input) ==
    CASE enum = "VisUnit" -> VisUnit_from_str(input)
      [] enum = "PhaseType" -> PhaseType_from_str(input)
      [] enum = "EqConvention" -> EqConvention_from_str(input)
      [] enum = "Orientation" -> Orientation_from_str(input)
      [] enum = "BltOrder" -> BltOrder_from_str(input)

UpperChar(c) ==
    IF \E i \in 1..Len(Lower) : Lower[i] = c THEN Upper[IndexIn(Lower, c)] ELSE c
to_uppercase(s) == [i \in 1..Len(s) |-> UpperChar(s[i])]

\* the texts the parsers are given: every spelling some parser accepts, the
\* texts Display produces, and texts no parser accepts; each also in upper
\* case between white space
PlainTexts ==
    { S_uncalib, S_jy, S_k_str, S_drift, S_phased, S_multi, S_divide, S_multiply,
      S_unknown, S_east, S_north, S_bda_comma, S_unknown_unknown,
      <<>>, <<"m", "K">>, <<"b", "d", "a">>, <<"t", "i", "m", "e">>,
      <<"t", "i", "m", "e", ",", "b", "a", "s", "e", "l", "i", "n", "e">>,
      <<"u", "n", " ", "k", "n", "o", "w", "n">> }
       \cup UNION { { to_string(enum, v) : v \in ValuesOf(enum) } : enum \in Enums }
       \cup { BltOrder_to_string(BltOrder(a, b)) : a, b \in BltOrdersSet }

Texts == PlainTexts \cup { <<"\n", " ">> \o to_uppercase(s) \o <<" ">> : s \in PlainTexts }

\* the antenna pairs of the arrays packed: those of the tests of utils.rs and
\* the ends of the ranges of the two encodings
AntPairs ==
    { <<10, 20>>, <<280, 310>>, <<0, 0>>, <<3, 6>>, <<254, 254>>, <<255, 0>>,
      <<0, 255>>, <<2046, 2046>>, <<2047, 0>>, <<0, 2047>> }

AntSeqs == UNION { [1..n -> AntPairs] : n \in 1..MaxN }

\* the metas ArrayMetaData::new is called with
CountMetas ==
    { [UVMeta_new EXCEPT !.nblts = b, !.nants_telescope = a, !.nfreqs = f,
                         !.nspws = s, !.npols = s, !.nphases = s]
        : b \in 0..MaxN, a \in 0..MaxN, f \in 0..MaxN, s \in 1..2 }

Call(op, done, args, out) == [op |-> op, done |-> done, args |-> args, out |-> out]

\* a call of `op` with its arguments chosen and nothing applied yet
Chosen(op, args) == res = Call(op, FALSE, args, None)

CallInit ==
    /\ fs = [p \in Paths |-> None]
    /\ src = [p \in Paths |-> None]
    /\ obj = None
    /\ origin = "none"
    /\ \/ \E enum \in Enums : \E v \in ValuesOf(enum) :
             Chosen("to_string", [enum |-> enum, v |-> v])
       \/ \E enum \in Enums, s \in Texts :
             Chosen("from_str", [enum |-> enum, text |-> s, of |-> None])
       \/ \E ps \in AntSeqs, f \in BOOLEAN, c \in BOOLEAN :
             Chosen("antnums_to_baseline",
                    [ant1 |-> Array1([i \in DOMAIN ps |-> ps[i][1]]),
                     ant2 |-> Array1([i \in DOMAIN ps |-> ps[i][2]]),
                     attempt256 |-> f, checks |-> c])
       \/ \E m \in CountMetas : Chosen("ArrayMetaData::new", [meta |-> m, fresh |-> FALSE])
       \/ Chosen("UVMeta::new", [fresh |-> TRUE])
       \/ \E l \in LatLonAlts : Chosen("xyz_from_latlonalt", [lla |-> l])
       \/ \E id \in 0..MaxN, type \in {S_unphased, S_sidereal} :
             Chosen("serde_json::to_string", [entry |-> UnphasedVal(id, type)])
       \/ \E lon \in 0..MaxN, lat \in 0..MaxN, pm \in {None, Some(1)} :
             Chosen("serde_json::to_string",
                    [entry |-> [Sidereal(lon, lat) EXCEPT !.cat_pm_ra = pm]])
       \/ \E id \in 0..MaxN, dist \in {None, Some(Array1(<<5, 6>>))} :
             Chosen("serde_json::to_string", [entry |-> [Ephem(id) EXCEPT !.cat_dist = dist]])
       \/ \E i \in 1..Len(InputObjects) : Chosen("to_file", [self |-> InputObjects[i]])
       \/ \E i \in 1..Len(ExternalFiles), d \in BOOLEAN :
             Chosen("from_file", [file |-> ExternalFiles[i], read_data |-> d])


Pending(op) == res.op = op /\ ~res.done

\* v.to_string(); its text is then given to the parser
Display ==
    /\ Pending("to_string")
    /\ res' = Call("from_str", FALSE,
                   [enum |-> res.args.enum, text |-> to_string(res.args.enum, res.args.v),
                    of |-> Some(res.args.v)], None)
    /\ UNCHANGED <<fs, obj, origin, src>>

\* from_str(&text)
FromStr ==
    /\ Pending("from_str")
    /\ res' = [res EXCEPT !.done = TRUE,
                          !.out = Some(from_str(res.args.enum, res.args.text))]
    /\ UNCHANGED <<fs, obj, origin, src>>

\* antnums_to_baseline(&ant1, &ant2, attempt256)
AntnumsToBaseline ==
    /\ Pending("antnums_to_baseline")
    /\ res' = [res EXCEPT !.done = TRUE,
                          !.out = Some(antnums_to_baseline(res.args.ant1, res.args.ant2,
                                                           res.args.attempt256,
                                                           res.args.checks))]
    /\ UNCHANGED <<fs, obj, origin, src>>

\* baseline_to_antnums(&baselines, attempt256) of the baselines just packed
BaselineToAntnums ==
    /\ res.op = "antnums_to_baseline" /\ res.done /\ IsOk(Unwrap(res.out))
    /\ res' = Call("baseline_to_antnums", TRUE,
                   res.args,
                   Some(baseline_to_antnums(Unwrap(res.out).val, res.args.attempt256,
                                            res.args.checks)))
    /\ UNCHANGED <<fs, obj, origin, src>>

\* UVMeta::new(); ArrayMetaData::new is then called on the meta it returns
NewMeta ==
    /\ Pending("UVMeta::new")
    /\ res' = Call("ArrayMetaData::new", FALSE, [meta |-> UVMeta_new, fresh |-> TRUE], None)
    /\ UNCHANGED <<fs, obj, origin, src>>

\* ArrayMetaData::new(&meta)
NewArrays ==
    /\ Pending("ArrayMetaData::new")
    /\ res' = [res EXCEPT !.done = TRUE, !.out = Some(ArrayMetaData_new(res.args.meta))]
    /\ UNCHANGED <<fs, obj, origin, src>>

\* xyz_from_latlonalt(lat, lon, alt); its result is then given to the inverse
XyzFromLatlonalt ==
    /\ Pending("xyz_from_latlonalt")
    /\ res' = Call("latlonalt_from_xyz", FALSE,
                   [xyz |-> xyz_from_latlonalt(res.args.lla[1], res.args.lla[2],
                                               res.args.lla[3]),
                    of |-> res.args.lla], None)
    /\ UNCHANGED <<fs, obj, origin, src>>

\* latlonalt_from_xyz(xyz)
LatlonaltFromXyz ==
    /\ Pending("latlonalt_from_xyz")
    /\ res' = [res EXCEPT !.done = TRUE, !.out = Some(latlonalt_from_xyz(res.args.xyz))]
    /\ UNCHANGED <<fs, obj, origin, src>>

\* serde_json::to_string(&entry); its text is then given to the decoder
CatalogToJson ==
    /\ Pending("serde_json::to_string")
    /\ res' = Call("serde_json::from_str", FALSE,
                   [text |-> json_to_string(res.args.entry), of |-> res.args.entry], None)
    /\ UNCHANGED <<fs, obj, origin, src>>

\* serde_json::from_str::<CatTypes>(&text)
CatalogFromJson ==
    /\ Pending("serde_json::from_str")
    /\ res' = [res EXCEPT !.done = TRUE, !.out = Some(json_from_str(res.args.text))]
    /\ UNCHANGED <<fs, obj, origin, src>>

\* self.to_file(path, true) where no file is
ToFile ==
    /\ Pending("to_file")
    /\ res' = [res EXCEPT !.done = TRUE, !.out = Some(to_file(res.args.self, None, TRUE))]
    /\ UNCHANGED <<fs, obj, origin, src>>

\* UVH5::from_file(path, read_data)
FromFile ==
    /\ Pending("from_file")
    /\ res' = [res EXCEPT !.done = TRUE,
                          !.out = Some(from_file(Some(res.args.file), res.args.read_data,
                                                 FALSE))]
    /\ UNCHANGED <<fs, obj, origin, src>>

CallNext ==
    \/ Display
    \/ FromStr
    \/ AntnumsToBaseline
    \/ BaselineToAntnums
    \/ NewMeta
    \/ NewArrays
    \/ XyzFromLatlonalt
    \/ LatlonaltFromXyz
    \/ CatalogToJson
    \/ CatalogFromJson
    \/ ToFile
    \/ FromFile

CallSpec == CallInit /\ [][CallNext]_vars

\* ------------------------------------------------------------------------
\* Properties
\* ------------------------------------------------------------------------
\* the file the last read was given (Read leaves the files as they are)
ReadFile == Unwrap(fs[res.path])

\* the last call was a read of a file that exists
ReadOfFile == res.op = "read" /\ IsSome(fs[res.path])

\* the object whose write made the file at the path of the last call
Written == Unwrap(src[res.path]).d

\* the object the last call returned
Got == Unwrap(obj)

\* h is h0, or h0 with the version stamp appended
HistoryStamped(h, h0) == h = h0 \/ h = h0 \o print_version_str

\* the three cubes of a and b are equal
SameCubes(a, b) ==
    /\ OptArray_eq(a.data_array, b.data_array)
    /\ OptArray_eq(a.nsample_array, b.nsample_array)
    /\ OptArray_eq(a.flag_array, b.flag_array)

\* C1: an object whose three cubes are set is written, and reading the file
\* it was written to, with read_data, returns an object equal to it, whose
\* history is the written one or the written one with the stamp appended.
RoundTripIdentity ==
    /\ (res.op = "write" /\ res.cubes /\ res.overwrite) => res.tag = "Ok"
    /\ (res.op = "read" /\ res.read_data /\ IsSome(src[res.path])) =>
          /\ res.tag = "Ok"
          /\ UVData_eq_but_history(Got, Written)
          /\ HistoryStamped(Got.meta.history, Written.meta.history)

\* C2: an object read with read_data from a file is written to the output
\* path, and reading that path back gives an object with the same meta
\* (history set aside), the same meta_arrays and the same three cubes.
ReadWriteReadStable ==
    /\ (res.op = "write" /\ res.from = "read" /\ res.cubes /\ res.overwrite)
          => res.tag = "Ok"
    /\ (/\ res.op = "read" /\ res.read_data /\ IsSome(src[res.path])
        /\ Unwrap(src[res.path]).origin = "read" /\ CubesSet(Written)) =>
          /\ res.tag = "Ok"
          /\ UVMeta_eq_but_history(Got.meta, Written.meta)
          /\ ArrayMetaData_eq(Got.meta_arrays, Written.meta_arrays)
          /\ SameCubes(Got, Written)

\* C3: a write of an object whose data_array is unset returns the error of
\* metadata-only objects and leaves every path as it was, whether or not a
\* file exists there and whatever overwrite is.
MetadataOnlyWriteRejected ==
    [][(IsSome(obj) /\ IsNone(Unwrap(obj).data_array) /\ res'.op = "write") =>
          /\ res'.tag = "Err"
          /\ res'.msg.text = "Unable to write metadata only objects to UVH5 files."
          /\ res'.handle = "unopened"
          /\ fs' = fs]_vars

\* a metadata-only object was written with overwrite over an existing file
MetadataOnlyWriteOverExisting ==
    /\ res.op = "write" /\ res.tag = "Err" /\ res.overwrite /\ ~res.cubes
    /\ res.msg.text = "Unable to write metadata only objects to UVH5 files."
    /\ IsSome(fs[res.path])

\* the array of the given shape filled with v
Filled(shape, v) == [shape |-> shape, data |-> [i \in 1..Prod(shape) |-> v]]

\* the cubes of d are all set, of shape [nblts, ntimes, npols], zero-filled
ZeroCubes(d) ==
    /\ d.data_array =
          Some(Filled(<<d.meta.nblts, d.meta.ntimes, d.meta.npols>>, [re |-> 0, im |-> 0]))
    /\ d.nsample_array = Some(Filled(<<d.meta.nblts, d.meta.ntimes, d.meta.npols>>, 0))
    /\ d.flag_array = Some(Filled(<<d.meta.nblts, d.meta.ntimes, d.meta.npols>>, FALSE))

\* the cubes of d are all unset
NoCubes(d) ==
    IsNone(d.data_array) /\ IsNone(d.nsample_array) /\ IsNone(d.flag_array)

\* C4: UVData::new(m, true), From<UVMeta> and From<(UVMeta, true)> give the
\* three cubes unset; UVData::new(m, false) and From<(UVMeta, false)> give
\* them set, each of shape [nblts, ntimes, npols], filled with zero, zero
\* and false.  (res.cubes is the negation of metadata_only.)
MetadataOnlyContract ==
    (res.op \in {"new", "from", "from_pair"}) =>
        IF res.cubes THEN ZeroCubes(Got) ELSE NoCubes(Got)

\* UVData::new built cubes with more than one time and more than one
\* baseline-time, the number of times different from that of frequencies
NewWithCubes ==
    /\ res.op = "new" /\ res.cubes
    /\ Got.meta.nblts > 1 /\ Got.meta.ntimes > 1
    /\ Got.meta.ntimes # Got.meta.nfreqs /\ ZeroCubes(Got)

\* C5: an object made by UVData::new, by a From conversion or by a
\* successful read has its three cubes all set or all unset.
CubesJointly ==
    (IsSome(obj) /\ origin \in {"new", "read"}) => (CubesSet(Got) \/ NoCubes(Got))

\* a read with read_data returned an object with the three cubes
ReadWithCubes ==
    /\ res.op = "read" /\ res.tag = "Ok" /\ res.read_data
    /\ origin = "read" /\ CubesSet(Got)

\* the header of `file` stores `name` 2-D with a leading axis of length 1
UnitLeading(file, name) ==
    /\ "Header" \in DOMAIN file
    /\ name \in DOMAIN file["Header"]
    /\ file["Header"][name].kind = "dataset"
    /\ Len(file["Header"][name].shape) = 2
    /\ file["Header"][name].shape[1] = 1

\* `file` with `name` stored 1-D directly
Flattened(file, name) ==
    HeaderWith(file, name, Dataset(<<file["Header"][name].shape[2]>>,
                                   file["Header"][name].data))

\* the header of `file` stores channel_width as a scalar, and Nfreqs
ScalarWidth(file) ==
    /\ "Header" \in DOMAIN file
    /\ {"channel_width", "Nfreqs"} \subseteq DOMAIN file["Header"]
    /\ file["Header"]["channel_width"].kind = "dataset"
    /\ file["Header"]["channel_width"].shape = <<>>
    /\ file["Header"]["Nfreqs"].shape = <<>>

\* `file` with channel_width stored as Nfreqs copies of the scalar
Broadcast(file) ==
    HeaderWith(file, "channel_width",
        Dataset(<<file["Header"]["Nfreqs"].data[1]>>,
                [i \in 1..file["Header"]["Nfreqs"].data[1] |->
                    file["Header"]["channel_width"].data[1]]))

\* the last read gave the meta_arrays field `name` that the read r of the
\* 1-D file gives, when that read succeeds
SameFieldAs(r, name) ==
    IsOk(r.r) =>
        /\ res.tag = "Ok"
        /\ Got.meta_arrays[name] = r.r.val.meta_arrays[name]
        /\ Len(Got.meta_arrays[name].shape) = 1

\* the last read gave what the read of `file` gives for `name`
ReadsLike(file, name) ==
    SameFieldAs(from_file(Some(file), res.read_data, res.checks), name)

\* C6 as stated: a file storing freq_array, or channel_width, 2-D with a
\* leading axis of length 1 reads as the file storing it 1-D reads: the read
\* succeeds and gives the same 1-D array.
LegacyFreqShapes ==
    ReadOfFile =>
        \A name \in {"freq_array", "channel_width"} :
            UnitLeading(ReadFile, name) => ReadsLike(Flattened(ReadFile, name), name)

\* the last read was refused for the n dimensions of channel_width
WidthRefused(n) ==
    /\ res.tag = "Err"
    /\ res.msg.text = "Incompatible dimensions of Channel width"
    /\ res.msg.arg = n
    /\ IsNone(obj)

\* C6 as the code has it: freq_array stored 2-D with a leading axis of length
\* 1 reads as the 1-D file reads; channel_width stored as a scalar reads as
\* the file storing Nfreqs copies of it; channel_width stored 2-D with a
\* leading axis of length 1 is refused with the error naming 2 dimensions,
\* where the file storing it 1-D is read.
FreqShapesNormalized ==
    ReadOfFile =>
        /\ UnitLeading(ReadFile, "freq_array") =>
               ReadsLike(Flattened(ReadFile, "freq_array"), "freq_array")
        /\ ScalarWidth(ReadFile) => ReadsLike(Broadcast(ReadFile), "channel_width")
        /\ (/\ UnitLeading(ReadFile, "channel_width")
            /\ IsOk(from_file(Some(Flattened(ReadFile, "channel_width")),
                              res.read_data, res.checks).r)) => WidthRefused(2)

\* a file with a 2-D freq_array and a scalar channel_width was read
LegacyFreqFileRead ==
    /\ ReadOfFile /\ res.tag = "Ok"
    /\ UnitLeading(ReadFile, "freq_array") /\ ScalarWidth(ReadFile)
    /\ Got.meta_arrays.freq_array.shape = <<Got.meta.nfreqs>>
    /\ Got.meta_arrays.channel_width.shape = <<Got.meta.nfreqs>>
    /\ Got.meta.nfreqs > 1

\* the names of the three cubes in /Data
CubeNames == {"visdata", "flags", "nsamples"}

\* /Data of `file` stores the three cubes 4-D with a second axis of length 1
UnitSpw(file) ==
    /\ "Data" \in DOMAIN file
    /\ \A c \in CubeNames :
          /\ c \in DOMAIN file["Data"]
          /\ file["Data"][c].kind = "dataset"
          /\ Len(file["Data"][c].shape) = 4
          /\ file["Data"][c].shape[2] = 1

\* the dataset d without its second axis, of length 1
Direct(d) == Dataset(<<d.shape[1], d.shape[3], d.shape[4]>>, d.data)

\* `file` with the three cubes stored 3-D directly
Direct3D(file) ==
    [g \in DOMAIN file |->
        IF g = "Data"
        THEN [c \in DOMAIN file[g] |->
                 IF c \in CubeNames THEN Direct(file[g][c]) ELSE file[g][c]]
        ELSE file[g]]

\* the last read gave the cubes that the read r of the 3-D file gives, when
\* that read succeeds
SameCubesAs(r) ==
    IsOk(r.r) =>
        /\ res.tag = "Ok"
        /\ SameCubes(Got, r.r.val)
        /\ CubesSet(Got)
        /\ Len(Unwrap(Got.data_array).shape) = 3

\* /Data of `file` stores the three cubes, visdata neither 3-D nor 4-D, under a
\* header that is read without the data
OtherDims(file) ==
    /\ "Data" \in DOMAIN file
    /\ \A c \in CubeNames : c \in DOMAIN file["Data"] /\ file["Data"][c].kind = "dataset"
    /\ Len(file["Data"]["visdata"].shape) \notin {3, 4}
    /\ IsOk(from_file(Some(file), FALSE, res.checks).r)

\* the last read was refused for the n dimensions of visdata
DataRefused(n) ==
    /\ res.tag = "Err"
    /\ res.msg.text = "Incompatible dimensions of data array"
    /\ res.msg.arg = n
    /\ IsNone(obj)

\* C7: a read with read_data of a file storing the three cubes 4-D
\* [nblts, 1, ntimes, npols] gives the 3-D cubes that the read of the direct
\* 3-D encoding gives; a read of a file whose visdata is neither 3-D nor 4-D
\* returns the error naming the number of dimensions, and no object.
CubeShapesNormalized ==
    (ReadOfFile /\ res.read_data) =>
        /\ UnitSpw(ReadFile) =>
               SameCubesAs(from_file(Some(Direct3D(ReadFile)), TRUE, res.checks))
        /\ OtherDims(ReadFile) => DataRefused(Len(ReadFile["Data"]["visdata"].shape))

\* a file storing the cubes 4-D, with more than one baseline-time, was read
LegacyCubesRead ==
    /\ ReadOfFile /\ res.read_data /\ res.tag = "Ok"
    /\ UnitSpw(ReadFile)
    /\ ReadFile["Data"]["visdata"].shape[1] > 1
    /\ Unwrap(Got.data_array).shape = <<Got.meta.nblts, Got.meta.ntimes, Got.meta.npols>>

\* the value of the header scalar `name` of the file read
Stored(name) == ReadFile["Header"][name].data[1]

\* cat_frame as the legacy phased branch builds it
StoredFrame ==
    IF "phase_center_frame" \in DOMAIN ReadFile["Header"]
    THEN to_lowercase(Stored("phase_center_frame"))
    ELSE S_unknown

\* e is the Sidereal entry, id 0, of the legacy scalars of the file read
SiderealOfScalars(e) ==
    /\ e.variant = "Sidereal"
    /\ e.cat_id = 0
    /\ e.cat_type = S_sidereal
    /\ e.cat_lon = Stored("phase_center_ra")
    /\ e.cat_lat = Stored("phase_center_dec")
    /\ e.cat_epoch = Stored("phase_center_epoch")
    /\ e.cat_frame = StoredFrame
    /\ e.info_source = Some(S_UVData)

\* cat is the catalog of a legacy file of the given phase_type
LegacyCatalogOf(cat, phase_type) ==
    CASE phase_type = "Drift" ->
           /\ DOMAIN cat = {S_zenith}
           /\ cat[S_zenith] = [variant |-> "Unphased", cat_id |-> 0,
                               cat_type |-> S_unphased]
      [] phase_type = "Phased" ->
           /\ Cardinality(DOMAIN cat) = 1
           /\ \A n \in DOMAIN cat : SiderealOfScalars(cat[n])
      [] OTHER -> DOMAIN cat = {}

\* C8: a successful read of a file without the phase_center_catalog group
\* gives, for phase_type Drift, the catalog of the one Unphased entry "zenith"
\* with id 0; for Phased, the catalog of one Sidereal entry with id 0, the
\* stored ra, dec, epoch and frame and info_source "UVData"; for any other
\* phase_type, the empty catalog; and phase_center_id_array is nblts zeros.
LegacySinglePhase ==
    (ReadOfFile /\ res.tag = "Ok"
        /\ "phase_center_catalog" \notin DOMAIN ReadFile["Header"]) =>
        /\ LegacyCatalogOf(Got.meta_arrays.phase_center_catalog, Got.meta.phase_type)
        /\ Got.meta_arrays.phase_center_id_array = Filled(<<Got.meta.nblts>>, 0)

\* a legacy phased file, its ra different from its dec, was read
LegacyPhasedRead ==
    /\ ReadOfFile /\ res.tag = "Ok"
    /\ "phase_center_catalog" \notin DOMAIN ReadFile["Header"]
    /\ Got.meta.phase_type = "Phased"
    /\ Stored("phase_center_ra") # Stored("phase_center_dec")
    /\ Got.meta.nblts > 1

\* b = 2048 * (a1 + 1) + (a2 + 1) + 65536, compared by quotient and remainder
\* of 2048 so that no product leaves the 32-bit integers of TLC
Packs(b, a1, a2) ==
    /\ b \div 2048 = (a1 + 1) + ((a2 + 1 + 65536) \div 2048)
    /\ b % 2048 = (a2 + 1 + 65536) % 2048

\* the baseline_array of ma is the packing of its antenna arrays
Derived(ma) ==
    /\ Len(ma.baseline_array.data) = Len(ma.ant_1_array.data)
    /\ \A i \in 1..Len(ma.baseline_array.data) :
          Packs(ma.baseline_array.data[i], ma.ant_1_array.data[i], ma.ant_2_array.data[i])

\* C9: after every successful read, baseline_array[i] is
\* 2048*(ant_1_array[i]+1) + (ant_2_array[i]+1) + 65536 for every i, and
\* meta.nbls is the number of distinct values of baseline_array, whatever
\* baseline_array and Nbls the file stores.
BaselinesDerived ==
    (res.op = "read" /\ res.tag = "Ok") =>
        /\ Derived(Got.meta_arrays)
        /\ Got.meta.nbls =
              Cardinality({ Got.meta_arrays.baseline_array.data[i] :
                              i \in 1..Len(Got.meta_arrays.baseline_array.data) })

\* the required scalars that the header of `file` lacks
Missing(file) ==
    { RequiredScalars[i] : i \in { j \in 1..Len(RequiredScalars) :
                                     RequiredScalars[j] \notin DOMAIN file["Header"] } }

\* C10: a read of a file whose header lacks a required scalar returns an
\* error that names a missing field; it does not panic.
MissingScalarIsError ==
    (ReadOfFile /\ "Header" \in DOMAIN ReadFile /\ Missing(ReadFile) # {}) =>
        /\ res.tag = "Err"
        /\ res.msg.arg \in Missing(ReadFile)

\* the enum scalars a header may lack, each with a text its parser accepts
DefaultedEnums ==
    [vis_units |-> S_uncalib, x_orientation |-> S_east,
     blt_order |-> S_unknown, eq_coeffs_convention |-> S_divide]

\* the value the read gives the enum field `name` of the object d
EnumField(d, name) ==
    CASE name = "vis_units" -> d.meta.vis_units
      [] name = "x_orientation" -> d.meta.x_orientation
      [] name = "blt_order" -> d.meta.blt_order
      [] name = "eq_coeffs_convention" -> d.meta.eq_coeffs_convention

\* the value an absent enum field `name` is read as
AbsentValue(name) ==
    CASE name = "vis_units" -> "Uncalib"
      [] name = "blt_order" -> BltOrder("Unknown", "Unknown")
      [] OTHER -> "Unknown"

\* the last call read a file whose header has no field `name`
ReadWithout(name) ==
    ReadOfFile /\ "Header" \in DOMAIN ReadFile /\ name \notin DOMAIN ReadFile["Header"]

\* the outcome of the last read had the header of its file held `name` as `text`
ReadGiven(file, name, text) ==
    ReadOutcome(read_uvh5(Some(HeaderWith(file, name, ScalarDs(text))),
                          res.read_data, res.checks),
                res.path, res.read_data, res.checks)

\* C11: a read of a file that lacks vis_units gives Uncalib, one that lacks
\* x_orientation, blt_order or eq_coeffs_convention gives the Unknown value
\* of the field; and the read ends as the read of the same file with the
\* field present ends: the absence alone never makes it fail.
AbsentEnumsDefaulted ==
    \A name \in DOMAIN DefaultedEnums :
       ReadWithout(name) =>
          /\ res.tag = "Ok" => EnumField(Got, name) = AbsentValue(name)
          /\ res = ReadGiven(ReadFile, name, DefaultedEnums[name])

\* a read of a file without vis_units has returned an object
ReadWithoutVisUnits == ReadWithout("vis_units") /\ res.tag = "Ok"

\* C12: a read of a file that has no phase_type field ends as the read of
\* the same file with phase_type "drift" ends, and an object it returns has
\* phase_type Drift.
AbsentPhaseTypeIsDrift ==
    ReadWithout("phase_type") =>
       /\ res.tag = "Ok" => Got.meta.phase_type = "Drift"
       /\ res = ReadGiven(ReadFile, "phase_type", S_drift)

\* the last step applied `op`
Applied(op) == res.op = op /\ res.done

\* what the last step returned
Returned == Unwrap(res.out)

\* the last step parsed the display string of a value
ParsedDisplay == Applied("from_str") /\ IsSome(res.args.of)

\* C13: the display string of every value of every enumeration (of BltOrder,
\* every value its parser can return) parses back to the value, and the
\* display string of the Bda order is "bda,".
DisplayRoundTrips ==
    ParsedDisplay =>
       /\ Returned.tag = "Ok"
       /\ Returned.val = Unwrap(res.args.of)
       /\ (res.args.enum = "BltOrder" /\ Unwrap(res.args.of).major = "Bda")
             => res.args.text = S_bda_comma

\* "major, minor" in lower case
PairText(major, minor) ==
    to_lowercase(DebugFmt(major)) \o <<",", " ">> \o to_lowercase(DebugFmt(minor))

\* the canonical strings of an enumeration, each with the value it names
Canonical(enum) ==
    CASE enum = "VisUnit" ->
           { <<S_uncalib, "Uncalib">>, <<S_jy, "Jansky">>, <<S_k_str, "Kelvinstr">> }
      [] enum = "PhaseType" ->
           { <<S_drift, "Drift">>, <<S_phased, "Phased">>, <<S_multi, "Multi">> }
      [] enum = "EqConvention" ->
           { <<S_divide, "Divide">>, <<S_multiply, "Multiply">>, <<S_unknown, "Unknown">> }
      [] enum = "Orientation" ->
           { <<S_east, "East">>, <<S_north, "North">>, <<S_unknown, "Unknown">> }
      [] enum = "BltOrder" ->
           { <<PairText(p[1], p[2]), BltOrder(p[1], p[2])>> : p \in BltPairs }
              \cup { <<S_bda_comma, BltOrder("Bda", "Bda")>>,
                     <<S_unknown, BltOrder("Unknown", "Unknown")>> }

\* the values named by `text` once trimmed and put in lower case
Named(enum, text) == { p[2] : p \in { q \in Canonical(enum) : q[1] = Canon(text) } }

\* the enum fields of a header and the enumeration of each
EnumFields ==
    [vis_units |-> "VisUnit", x_orientation |-> "Orientation", blt_order |-> "BltOrder",
     eq_coeffs_convention |-> "EqConvention", phase_type |-> "PhaseType"]

\* the enum fields that the header of `file` holds as a text naming no value
Unparsable(file) ==
    { name \in DOMAIN EnumFields :
        /\ "Header" \in DOMAIN file
        /\ name \in DOMAIN file["Header"]
        /\ file["Header"][name].kind = "dataset"
        /\ file["Header"][name].shape = <<>>
        /\ Named(EnumFields[name], file["Header"][name].data[1]) = {} }

\* C14: a parser returns the value its input names when the input, trimmed
\* of white space and in lower case, is a canonical string of the
\* enumeration (for BltOrder: one of the twelve pairs, "bda," or "unknown"),
\* and an error for every other input; a read of a file holding an enum
\* field no parser accepts returns an error.
ParsersExact ==
    /\ Applied("from_str") =>
          IF Named(res.args.enum, res.args.text) = {} THEN Returned.tag = "Err"
          ELSE /\ Returned.tag = "Ok"
               /\ Named(res.args.enum, res.args.text) = {Returned.val}
    /\ (Applied("from_file") /\ Unparsable(res.args.file) # {}) => Returned.r.tag = "Err"

\* a read of a file holding an enum field that no parser accepts has ended
UnparsableFileRead == Applied("from_file") /\ Unparsable(res.args.file) # {}

\* the enum fields that are said to be left out of the header when Unknown
OmittedEnums == {"blt_order", "eq_coeffs_convention", "x_orientation"}

\* the object d with the enum field `name` at a value that is not Unknown
Known(d, name) ==
    CASE name = "blt_order" -> [d EXCEPT !.meta.blt_order = BltOrder("Time", "Baseline")]
      [] name = "eq_coeffs_convention" -> [d EXCEPT !.meta.eq_coeffs_convention = "Divide"]
      [] name = "x_orientation" -> [d EXCEPT !.meta.x_orientation = "East"]

\* C15: a write leaves each of blt_order, eq_coeffs_convention and
\* x_orientation out of the header exactly when the object holds it as
\* Unknown: the header of a completed write has the field iff the value is
\* not Unknown, and a write of an Unknown value ends as the write of the same
\* object with a known value ends.
UnknownWrittenByOmission ==
    (Applied("to_file") /\ writable(res.args.self)) =>
       \A name \in OmittedEnums :
          /\ EnumField(res.args.self, name) = AbsentValue(name) =>
                Returned.r.tag = to_file(Known(res.args.self, name), None, TRUE).r.tag
          /\ Returned.r.tag = "Ok" =>
                (name \in DOMAIN Unwrap(Returned.file)["Header"]
                    <=> EnumField(res.args.self, name) # AbsentValue(name))

\* the number of entries of the catalog of d
EntryCount(d) == Cardinality(DOMAIN d.meta_arrays.phase_center_catalog)

\* C16: a write of an object with nphases = 1 whose catalog has no entry or
\* more than one returns the error that reports the invalid catalog entry.
SinglePhaseNeedsOneEntry ==
    (Applied("to_file") /\ writable(res.args.self)
        /\ res.args.self.meta.nphases = 1 /\ EntryCount(res.args.self) # 1) =>
       /\ Returned.r.tag = "Err"
       /\ Returned.r.val.text = "Invalid phase center catalog entry"

\* the histories a run starts from: those of the objects and of the files
\* it is given, and the empty history of a new object
StartHistories ==
    { InputObjects[i].meta.history : i \in 1..Len(InputObjects) }
       \cup { UVMeta_new.history, GoodFile["Header"]["history"].data[1] }

\* the history a file holds, if any
FileHistories(file) ==
    IF IsSome(file) /\ "Header" \in DOMAIN Unwrap(file)
          /\ "history" \in DOMAIN Unwrap(file)["Header"]
    THEN {Unwrap(file)["Header"]["history"].data[1]}
    ELSE {}

\* the histories held in memory and on disk
Histories ==
    (IF IsSome(obj) THEN {Got.meta.history} ELSE {})
       \cup UNION { FileHistories(fs[p]) : p \in Paths }

\* h is h0, or h0 lacks the version stamp (spaces and newlines aside) and h
\* is h0 with the stamp appended
AppendedAtMostOnce(h, h0) ==
    \/ h = h0
    \/ /\ h = h0 \o print_version_str
       /\ ~contains(Squeezed(h0), Squeezed(print_version_str))

\* C17: the stamp step leaves a stamped history as it is, and after any
\* sequence of writes and reads every history in memory and on disk is a
\* history the run started from with the version stamp appended at most once.
HistoryStampedOnce ==
    \A h \in Histories :
       /\ stamp(stamp(h)) = stamp(h)
       /\ \E h0 \in StartHistories : AppendedAtMostOnce(h, h0)

\* a file has been read, written out, and the file written read again
RereadAfterRewrite ==
    /\ res.op = "read" /\ res.tag = "Ok" /\ res.path = "b"
    /\ IsSome(src["b"]) /\ Unwrap(src["b"]).origin = "read"
    /\ contains(Got.meta.history, print_version_str)

\* the largest antenna number of each encoding
MaxAnt(attempt256) == IF attempt256 THEN 254 ELSE 2046

\* both antenna arrays of the call are within the range of its encoding
InRange ==
    \A i \in 1..Len(res.args.ant1.data) :
       /\ res.args.ant1.data[i] \in 0..MaxAnt(res.args.attempt256)
       /\ res.args.ant2.data[i] \in 0..MaxAnt(res.args.attempt256)

\* C18: for either flag and antenna arrays within the range of the encoding
\* the flag selects, the arrays are packed, and unpacking the baselines with
\* the same flag returns the two arrays.
PackingInverse ==
    /\ (Applied("antnums_to_baseline") /\ InRange) => Returned.tag = "Ok"
    /\ (Applied("baseline_to_antnums") /\ InRange) =>
          Returned = Ok(<<res.args.ant1, res.args.ant2>>)

\* arrays that reach the end of the range of base 2048 have been packed and
\* unpacked
UnpackedAtRangeEnd ==
    /\ Applied("baseline_to_antnums") /\ InRange /\ ~res.args.attempt256
    /\ \E i \in 1..Len(res.args.ant1.data) : res.args.ant2.data[i] = 2046

\* the baseline number said to pack the pair (a1, a2)
Packed(a1, a2, attempt256) ==
    IF attempt256 /\ a1 < 255 /\ a2 < 255
    THEN 256 * (a1 + 1) + (a2 + 1)
    ELSE 2048 * (a1 + 1) + (a2 + 1) + 65536

\* C19: antnums_to_baseline returns, element by element, 256*(a1+1) + (a2+1)
\* when attempt256 is set and both numbers are below 255, and
\* 2048*(a1+1) + (a2+1) + 2^16 in every other case.
PackingFormula ==
    Applied("antnums_to_baseline") =>
       /\ Returned.tag = "Ok"
       /\ Returned.val.shape = res.args.ant1.shape
       /\ \A i \in 1..Len(res.args.ant1.data) :
             Returned.val.data[i] =
                Packed(res.args.ant1.data[i], res.args.ant2.data[i], res.args.attempt256)

\* the shape each array of ArrayMetaData::new(m) is said to have
CountShapes(m) ==
    [spw_array |-> <<m.nspws>>, uvw_array |-> <<m.nblts, 3>>,
     time_array |-> <<m.nblts>>, lst_array |-> <<m.nblts>>,
     ant_1_array |-> <<m.nblts>>, ant_2_array |-> <<m.nblts>>,
     baseline_array |-> <<m.nblts>>, integration_time |-> <<m.nblts>>,
     phase_center_id_array |-> <<m.nblts>>, freq_array |-> <<m.nfreqs>>,
     spw_id_array |-> <<m.nfreqs>>, channel_width |-> <<m.nfreqs>>,
     polarization_array |-> <<m.npols>>, antenna_numbers |-> <<m.nants_telescope>>,
     antenna_names |-> <<m.nants_telescope>>,
     antenna_positions |-> <<m.nants_telescope, 3>>]

\* C20: every array of ArrayMetaData::new(m) has the length m's counts fix:
\* nspws, nblts (x 3), nfreqs, npols or nants_telescope (x 3) as listed.
ArrayLengthsFromCounts ==
    Applied("ArrayMetaData::new") =>
       \A name \in DOMAIN CountShapes(res.args.meta) :
          /\ Returned[name].shape = CountShapes(res.args.meta)[name]
          /\ Len(Returned[name].data) = Prod(Returned[name].shape)

\* the counts of a UVMeta other than nphases
Counts == {"nbls", "nblts", "npols", "nspws", "ntimes", "nfreqs", "nants_data",
           "nants_telescope"}

\* m is as UVMeta::new() is said to return it
DefaultMeta(m) ==
    /\ m.nphases = 1
    /\ \A c \in Counts : m[c] = 0
    /\ m.history = <<>>
    /\ m.blt_order = BltOrder("Unknown", "Unknown")
    /\ m.x_orientation = "Unknown"
    /\ m.eq_coeffs_convention = "Unknown"
    /\ m.phase_type = "Drift"
    /\ m.vis_units = "Uncalib"
    /\ m.telescope_location = <<0, 0, 0>>

\* the names of the arrays of an ArrayMetaData that are always set
ArrayNames == DOMAIN CountShapes(UVMeta_new)

\* C21: UVMeta::new() has nphases 1, every other count 0, an empty history,
\* Unknown blt_order, x_orientation and eq_coeffs_convention, phase_type
\* Drift, vis_units Uncalib and a telescope_location at the origin; and
\* ArrayMetaData::new on it returns every array empty and a catalog whose
\* only entry is the Unphased "zenith_0".
DefaultConstruction ==
    (res.op = "ArrayMetaData::new" /\ res.args.fresh) =>
       /\ DefaultMeta(res.args.meta)
       /\ res.done =>
            /\ \A name \in ArrayNames : Len(Returned[name].data) = 0
            /\ DOMAIN Returned.phase_center_catalog = {S_zenith \o <<"_", "0">>}
            /\ \A n \in DOMAIN Returned.phase_center_catalog :
                  Returned.phase_center_catalog[n] = UnphasedVal(0, S_unphased)

\* ArrayMetaData::new has been applied to the meta of UVMeta::new()
DefaultArraysBuilt == Applied("ArrayMetaData::new") /\ res.args.fresh

\* the cat_type string of each variant
KindTag(variant) ==
    CASE variant = "Unphased" -> S_unphased
      [] variant = "Sidereal" -> S_sidereal
      [] variant = "Ephem" -> S_ephem

\* no two entries of cat share an id, and each cat_type names its variant
CatalogWellFormed(cat) ==
    /\ \A n, m \in DOMAIN cat : cat[n].cat_id = cat[m].cat_id => n = m
    /\ \A n \in DOMAIN cat : cat[n].cat_type = KindTag(cat[n].variant)

\* C22: the catalog of an object built by UVData::new (ArrayMetaData::new)
\* has nphases entries with the ids 0..nphases-1, and in it and in every
\* catalog a successful read returns no two entries share an id and every
\* cat_type string matches the variant of its entry.
CatalogInvariant ==
    /\ (IsSome(obj) /\ origin \in {"new", "read"}) =>
          CatalogWellFormed(Got.meta_arrays.phase_center_catalog)
    /\ (IsSome(obj) /\ origin = "new") =>
          { Got.meta_arrays.phase_center_catalog[n].cat_id :
               n \in DOMAIN Got.meta_arrays.phase_center_catalog }
             = 0..(Got.meta.nphases - 1)

\* the valid range of a telescope location: latitude in [-90, 90] degrees,
\* longitude in [-180, 180] degrees, altitude between 1 km below and 10 km
\* above the ellipsoid
InValidRange(lla) ==
    /\ lla[1] >= -90000000 /\ lla[1] <= 90000000
    /\ lla[2] >= -180000000 /\ lla[2] <= 180000000
    /\ lla[3] >= -100000 /\ lla[3] <= 1000000

\* |a - b| <= tol
Within(a, b, tol) == a - b <= tol /\ b - a <= tol

\* latlonalt_from_xyz's result with its two angles converted to degrees
InDegrees(lla) == <<to_degrees(1, lla[1]), to_degrees(2, lla[2]), lla[3]>>

Entries(d) ==
    { d.meta_arrays.phase_center_catalog[n] : n \in DOMAIN d.meta_arrays.phase_center_catalog }

\* d has nphases = 1 and a catalog whose only entry is Sidereal
SoleSidereal(d) ==
    /\ d.meta.nphases = 1
    /\ Cardinality(Entries(d)) = 1
    /\ \A e \in Entries(d) : e.variant = "Sidereal"

\* C24: reading the file an object with nphases = 1 and a sole Sidereal
\* entry was written to returns a Sidereal entry with the cat_lon and the
\* cat_lat of the written entry.
SiderealPositionKept ==
    (res.op = "read" /\ res.tag = "Ok" /\ IsSome(src[res.path]) /\ SoleSidereal(Written)) =>
        \A e \in Entries(Written) :
            \E g \in Entries(Got) :
                /\ g.variant = "Sidereal"
                /\ g.cat_lon = e.cat_lon
                /\ g.cat_lat = e.cat_lat

\* C25: reading the file an object with nphases > 1 was written to returns
\* the nphases of the written object, a catalog with the same entry names
\* and the same phase_center_id_array.
MultiPhaseCountKept ==
    (res.op = "read" /\ res.tag = "Ok" /\ IsSome(src[res.path]) /\ Written.meta.nphases > 1) =>
        /\ Got.meta.nphases = Written.meta.nphases
        /\ DOMAIN Got.meta_arrays.phase_center_catalog
              = DOMAIN Written.meta_arrays.phase_center_catalog
        /\ Got.meta_arrays.phase_center_id_array = Written.meta_arrays.phase_center_id_array

\* C26: the JSON the writer makes of a Sidereal or an Ephem entry decodes, as
\* the reader decodes it, to an entry of the same variant equal to it.
JsonKeepsVariant ==
    (Applied("serde_json::from_str") /\ res.args.of.variant \in {"Sidereal", "Ephem"}) =>
        /\ IsOk(Unwrap(res.out))
        /\ CatTypes_eq(Unwrap(res.out).val, res.args.of)

\* the header of the file has the phase_center_catalog group, whose members
\* are all scalar datasets
HasCatalogGroup(file) ==
    /\ link_exists(file["Header"], "phase_center_catalog")
    /\ file["Header"]["phase_center_catalog"].kind = "group"

GroupMembers(file) == file["Header"]["phase_center_catalog"].data

\* some member of the file's catalog group holds a text that is not the JSON
\* of any variant of CatTypes
Undecodable(file) ==
    \E n \in DOMAIN GroupMembers(file) : ~IsOk(json_from_str(GroupMembers(file)[n].data[1]))

\* C27: a successful read of a file whose header has the catalog group gives
\* a catalog with exactly one entry per member of the group, under the
\* member's name, and the phase_center_id_array the file stores; when a
\* member is not decodable the read is an error reporting the JSON error and
\* no object is returned.
CatalogGroupRead ==
    (ReadOfFile /\ HasCatalogGroup(ReadFile)) =>
        /\ res.tag = "Ok" =>
              /\ DOMAIN Got.meta_arrays.phase_center_catalog = DOMAIN GroupMembers(ReadFile)
              /\ \A n \in DOMAIN GroupMembers(ReadFile) :
                    Ok(Got.meta_arrays.phase_center_catalog[n])
                       = json_from_str(GroupMembers(ReadFile)[n].data[1])
              /\ Got.meta_arrays.phase_center_id_array.data
                    = ReadFile["Header"]["phase_center_id_array"].data
        /\ Undecodable(ReadFile) =>
              /\ res.tag = "Err"
              /\ res.msg.text = "Json Err"
              /\ IsNone(obj)

\* a file whose catalog group has two decodable members was read
TwoMembersRead ==
    /\ ReadOfFile /\ HasCatalogGroup(ReadFile) /\ res.tag = "Ok"
    /\ Cardinality(DOMAIN GroupMembers(ReadFile)) = 2
    /\ Cardinality(DOMAIN Got.meta_arrays.phase_center_catalog) = 2

\* C28: every file a successful write produced is accepted by a read with
\* read_data: the read returns Ok.
WrittenFileAccepted ==
    (res.op = "read" /\ res.read_data /\ IsSome(src[res.path])) => res.tag = "Ok"

\* the length the counts of m fix for each array a read returns
ReadLengths(m) ==
    [time_array |-> m.nblts, lst_array |-> m.nblts, ant_1_array |-> m.nblts,
     ant_2_array |-> m.nblts, baseline_array |-> m.nblts, integration_time |-> m.nblts,
     phase_center_id_array |-> m.nblts, freq_array |-> m.nfreqs,
     channel_width |-> m.nfreqs, spw_id_array |-> m.nfreqs,
     polarization_array |-> m.npols, spw_array |-> m.nspws,
     antenna_numbers |-> m.nants_telescope, antenna_names |-> m.nants_telescope]

\* C29: after a successful read every array has the length the counts of
\* the meta read with it fix: nblts, nfreqs, npols, nspws or nants_telescope
\* as listed.
ReadLengthsAgree ==
    (res.op = "read" /\ res.tag = "Ok") =>
        \A name \in DOMAIN ReadLengths(Got.meta) :
            Got.meta_arrays[name].shape = <<ReadLengths(Got.meta)[name]>>

\* C30: a from_file or to_file call that opened the store returns, with
\* success or with an error, only after it has closed the store with
\* h5file.close().
StoreClosedOnExit ==
    (res.op \in {"read", "write"} /\ res.handle # "unopened") => res.handle = "closed"

=============================================================================
